---- MODULE Spec2Model ----
(***************************************************************************)
(* CapFlow admin front-end: the Products module (src/products.js) and the  *)
(* Machines module (machines.js, in src/unnamed/part_000), with the HTTP   *)
(* facade of api.js (also in part_000).                                    *)
(*                                                                         *)
(* One module is mounted into the container; its module-level JavaScript   *)
(* variables, the DOM it builds, the handler invocations suspended at an   *)
(* await, and the backend's list are the state.  A handler runs atomically *)
(* from an event (or a delivered response) to its next await.              *)
(*                                                                         *)
(* Left out: the optional pass-through inputs are never typed into (the    *)
(* investor price and the notes stay empty), and scrolling, CSS classes    *)
(* and the 4 s auto-hide timer of a notification have no state here.       *)
(* User-visible texts are written in ASCII (no accents, "..." for the      *)
(* ellipsis, "-" for the dash); button markup is written as its text.      *)
(***************************************************************************)
EXTENDS Integers, Sequences, FiniteSets, TLC

VARIABLES
    module,          \* "products" | "machines": the module the router mounted
    backend,         \* the list the REST backend holds
    editingProduct,  \* products.js: let editingProduct
    allProducts,     \* products.js: let allProducts
    editingMachine,  \* machines.js: let editingMachine
    allMachines,     \* machines.js: let allMachines
    activeFilter,    \* machines.js: let activeFilter
    dom,             \* element id -> its value / display / content
    domGen,          \* how many times the module markup was injected
    tasks,           \* async handler invocations suspended at an await
    events           \* how many user events (clicks, inputs, navigations) happened

vars == <<module, backend, editingProduct, allProducts, editingMachine,
          allMachines, activeFilter, dom, domGen, tasks, events>>

\* ------------------------------------------------------------------ bounds

\* The backend holds at most this many entities (a create beyond it is refused).
MaxEntities == 2
\* At most this many handler invocations are suspended at an await at once.
MaxTasks == 2
\* The module markup is injected at most this many times (first mount included).
MaxMounts == 2
\* The user acts at most this many times (a click, an input, a navigation).
MaxEvents == 3

\* ----------------------------------------------------- JavaScript values

\* JavaScript null, as held by editingProduct / editingMachine and payloads.
Null == [null |-> TRUE]

\* String(x) for the ids in use: a number becomes its decimal text and a
\* string stays as it is (ToString writes a string with its quotes).
String(x) ==
    LET text == ToString(x)
    IN  IF SubSeq(text, 1, 1) = "\"" THEN SubSeq(text, 2, Len(text) - 1) ELSE text

\* String.prototype.toLowerCase, one character.
LowerChar(c) ==
    CASE c = "A" -> "a" [] c = "B" -> "b" [] c = "C" -> "c"
      [] c = "M" -> "m" [] OTHER -> c

\* String.prototype.toLowerCase.
RECURSIVE toLowerCase(_)
toLowerCase(s) ==
    IF s = "" THEN "" ELSE LowerChar(SubSeq(s, 1, 1)) \o toLowerCase(Tail(s))

\* String.prototype.trim: leading and trailing blanks removed.
RECURSIVE trimStart(_)
trimStart(s) ==
    IF s # "" /\ SubSeq(s, 1, 1) = " " THEN trimStart(Tail(s)) ELSE s

RECURSIVE trimEnd(_)
trimEnd(s) ==
    IF s # "" /\ SubSeq(s, Len(s), Len(s)) = " "
    THEN trimEnd(SubSeq(s, 1, Len(s) - 1)) ELSE s

trim(s) == trimEnd(trimStart(s))

\* String.prototype.includes.
includes(s, q) ==
    \E i \in 1..(Len(s) + 1) :
        i + Len(q) - 1 <= Len(s) /\ SubSeq(s, i, i + Len(q) - 1) = q

\* Array.prototype.filter is Sequences' SelectSeq.
\* Array.prototype.find: the first element passing the test, or Null.
find(list, Test(_)) ==
    LET hits == SelectSeq(list, Test) IN IF hits = <<>> THEN Null ELSE Head(hits)

\* Array.prototype.some.
some(list, Test(_)) == \E i \in 1..Len(list) : Test(list[i])

\* Number(text) of a numeric input's value (the browser keeps such a value
\* either empty or a valid number; Number("") is 0).
Number(text) ==
    CASE text = "" -> 0 [] text = "-1" -> -1 [] text = "0" -> 0
      [] text = "5" -> 5 [] OTHER -> 7

\* parseFloat(text) || dflt: NaN (the empty text) and 0 are falsy.
parseFloatOr(text, dflt) ==
    IF text = "" \/ Number(text) = 0 THEN dflt ELSE Number(text)

\* `${n}` / assigning a number to an input's value.
NumberText(n) ==
    CASE n = -1 -> "-1" [] n = 0 -> "0" [] OTHER -> ToString(n)

\* f with the fields of g added or replaced by g's ({...f, ...g}).
Spread(f, g) == g @@ f

\* ------------------------------------------------------ api.js: request

\* A request not answered yet carries this in place of the response.
Pending == [status |-> 0, statusText |-> "", body |-> [parses |-> FALSE, data |-> Null]]

\* What `await request(...)` gives the caller: a value, or a thrown Error.
Returned(v) == [threw |-> FALSE, value |-> v, message |-> ""]
Thrown(m) == [threw |-> TRUE, value |-> Null, message |-> m]

\* An error message that ignores the body's message field.
ErrorMessage_generic(http) ==
    "Error " \o ToString(http.status) \o ": " \o http.statusText

\* errorData.message || errorMessage, where reading the body may throw.
ErrorMessage(http) ==
    LET errorMessage == "Error " \o ToString(http.status) \o ": " \o http.statusText
    IN  IF http.body.parses
           /\ "message" \in DOMAIN http.body.data
           /\ http.body.data.message # ""
        THEN http.body.data.message
        ELSE errorMessage

\* A request() that treats 204 as any other 2xx response.
request_reading204(http) ==
    IF ~(http.status \in 200..299) THEN Thrown(ErrorMessage(http))
    ELSE IF http.body.parses THEN Returned(http.body.data)
    ELSE Thrown("Unexpected end of JSON input")

\* request(): the part after `await fetch`.
request(http) ==
    IF ~(http.status \in 200..299) THEN Thrown(ErrorMessage(http))
    ELSE IF http.status = 204 THEN Returned(Null)
    ELSE IF http.body.parses THEN Returned(http.body.data)
    ELSE Thrown("Unexpected end of JSON input")

\* ProductsAPI: the fetch each method issues.
ProductsAPI_getAll == [method |-> "GET", endpoint |-> "/products", body |-> Null]
ProductsAPI_create(data) == [method |-> "POST", endpoint |-> "/products", body |-> data]
\* An update that addresses the collection and not the entity.
ProductsAPI_update_unaddressed(id, data) ==
    [method |-> "PUT", endpoint |-> "/products", body |-> data]
ProductsAPI_update(id, data) ==
    [method |-> "PUT", endpoint |-> "/products/" \o String(id), body |-> data]
ProductsAPI_setStatus(id, active) ==
    [method |-> "PUT", endpoint |-> "/products/" \o String(id) \o "/status",
     body |-> [active |-> active]]

\* MachinesAPI (imported by machines.js from api.js; the object itself is
\* not part of the sources at hand).
MachinesAPI_getAll == [method |-> "GET", endpoint |-> "/machines", body |-> Null]
MachinesAPI_create(data) == [method |-> "POST", endpoint |-> "/machines", body |-> data]
MachinesAPI_update(id, data) ==
    [method |-> "PUT", endpoint |-> "/machines/" \o String(id), body |-> data]
MachinesAPI_activate(id) ==
    [method |-> "PUT", endpoint |-> "/machines/" \o String(id) \o "/activate",
     body |-> [isActive |-> TRUE]]
MachinesAPI_deactivate(id) ==
    [method |-> "PUT", endpoint |-> "/machines/" \o String(id) \o "/deactivate",
     body |-> [isActive |-> FALSE]]

\* ------------------------------------------------------------ the backend

Json(status, data) ==
    [status |-> status, statusText |-> "OK", body |-> [parses |-> TRUE, data |-> data]]

\* The failures the backend (or the network path to it) answers with.
ErrorResponses ==
    { [status |-> 500, statusText |-> "Internal Server Error",
       body |-> [parses |-> TRUE, data |-> [message |-> "db down"]]] }

Base == IF module = "products" THEN "/products" ELSE "/machines"

\* The paths that address entity e.
EntityPaths(e) ==
    LET one == Base \o "/" \o String(e.id)
    IN  IF module = "products" THEN {one, one \o "/status"}
        ELSE {one, one \o "/activate", one \o "/deactivate"}

\* The backend's answer to req with list `held`: <<response, list afterwards>>.
BackendAnswer(req, held) ==
    IF req.method = "GET" THEN <<Json(200, held), held>>
    ELSE IF req.method = "POST" THEN
        IF Len(held) < MaxEntities
        THEN LET made == Spread(req.body, [id |-> Len(held) + 1])
             IN  <<Json(201, made), Append(held, made)>>
        ELSE <<[status |-> 507, statusText |-> "Insufficient Storage",
                body |-> [parses |-> FALSE, data |-> Null]], held>>
    ELSE IF \E i \in 1..Len(held) : req.endpoint \in EntityPaths(held[i])
    THEN LET i == CHOOSE j \in 1..Len(held) : req.endpoint \in EntityPaths(held[j])
             changed == Spread(held[i], Spread(req.body, [id |-> held[i].id]))
         IN  <<Json(200, changed), [held EXCEPT ![i] = changed]>>
    ELSE <<[status |-> 404, statusText |-> "Not Found",
            body |-> [parses |-> TRUE, data |-> [message |-> "not found"]]], held>>

\* ============================================================ products.js

\* buildModuleHTML: the elements the handlers read or write, by id.  An
\* input or select holds its value, a block its style.display, the tbody
\* its rows, a text element its text.
P_buildModuleHTML ==
    [ x \in {"products-count-badge", "form-title", "form-cancel-btn", "field-id",
             "field-name", "field-type", "field-price-standard",
             "field-price-investor", "field-active", "error-name", "error-type",
             "error-price-standard", "form-submit-btn", "feedback-banner",
             "table-search", "table-loading", "table-empty", "table-wrapper",
             "products-tbody"} |->
        CASE x = "products-count-badge" -> "- productos"
          [] x = "form-title" -> "Nuevo Producto"
          [] x = "form-cancel-btn" -> "none"
          [] x = "field-active" -> "true"
          [] x = "form-submit-btn" ->
                [innerHTML |-> "Crear Producto", disabled |-> FALSE, originalText |-> ""]
          [] x = "feedback-banner" -> [textContent |-> "", type |-> ""]
          [] x = "table-empty" -> "none"
          [] x = "table-wrapper" -> "none"
          [] x = "products-tbody" -> <<>>
          [] OTHER -> "" ]

P_showTableLoading(d, loading) ==
    [d EXCEPT !["table-loading"] = IF loading THEN "flex" ELSE "none",
              !["table-wrapper"] = IF loading THEN "none" ELSE "",
              !["table-empty"] = "none"]

P_showFeedback(d, message, type) ==
    [d EXCEPT !["feedback-banner"] = [textContent |-> message, type |-> type]]

P_updateCountBadge(d, count) ==
    [d EXCEPT !["products-count-badge"] =
        ToString(count) \o " producto" \o (IF count # 1 THEN "s" ELSE "")]

\* The row's data-id and data-active attributes and the cells it shows.
P_buildTableRow(product) ==
    LET isActive == ~("active" \in DOMAIN product /\ product.active = FALSE)
    IN  [id |-> String(product.id), active |-> isActive, name |-> product.name,
         type |-> IF product.type = "produced" THEN "Producido" ELSE "Reventa"]

P_renderTable(d, products) ==
    LET d1 == P_showTableLoading(d, FALSE)
    IN  IF Len(products) = 0
        THEN [d1 EXCEPT !["table-empty"] = "flex", !["table-wrapper"] = "none"]
        ELSE [d1 EXCEPT !["table-empty"] = "none", !["table-wrapper"] = "block",
                        !["products-tbody"] =
                            [i \in 1..Len(products) |-> P_buildTableRow(products[i])]]

P_clearFormErrors(d) ==
    [d EXCEPT !["error-name"] = "", !["error-type"] = "",
              !["error-price-standard"] = ""]

P_showFieldError(d, errorId, message) == [d EXCEPT ![errorId] = message]

\* A validateForm that reads the name without trimming it.
P_validateForm_untrimmed(d) ==
    LET name == d["field-name"]
        type == d["field-type"]
        price == d["field-price-standard"]
        d0 == P_clearFormErrors(d)
        d1 == IF name = ""
              THEN P_showFieldError(d0, "error-name", "El nombre del producto es obligatorio.")
              ELSE d0
        d2 == IF type = ""
              THEN P_showFieldError(d1, "error-type", "Selecciona el tipo de producto.")
              ELSE d1
        d3 == IF price = "" \/ Number(price) < 0
              THEN P_showFieldError(d2, "error-price-standard",
                                    "Ingresa un precio estandar valido.")
              ELSE d2
    IN  [valid |-> ~(name = "" \/ type = "" \/ price = "" \/ Number(price) < 0),
         dom |-> d3]

\* validateForm: <<valid, the DOM with the inline errors>>.
P_validateForm(d) ==
    LET name == trim(d["field-name"])
        type == d["field-type"]
        price == d["field-price-standard"]
        d0 == P_clearFormErrors(d)
        d1 == IF name = ""
              THEN P_showFieldError(d0, "error-name", "El nombre del producto es obligatorio.")
              ELSE d0
        d2 == IF type = ""
              THEN P_showFieldError(d1, "error-type", "Selecciona el tipo de producto.")
              ELSE d1
        d3 == IF price = "" \/ Number(price) < 0
              THEN P_showFieldError(d2, "error-price-standard",
                                    "Ingresa un precio estandar valido.")
              ELSE d2
    IN  [valid |-> ~(name = "" \/ type = "" \/ price = "" \/ Number(price) < 0),
         dom |-> d3]

P_collectFormData(d) ==
    [name |-> trim(d["field-name"]),
     type |-> d["field-type"],
     priceStandard |-> parseFloatOr(d["field-price-standard"], 0),
     priceInvestor |-> IF d["field-price-investor"] = "" THEN Null
                       ELSE [number |-> Number(d["field-price-investor"])],
     active |-> d["field-active"] = "true"]

\* A setButtonLoading that never gives the button back.
P_setButtonLoading_stuck(d, gen, loading) ==
    IF gen # domGen THEN d
    ELSE LET btn == d["form-submit-btn"]
             originalText == IF btn.originalText # "" THEN btn.originalText
                             ELSE btn.innerHTML
         IN  [d EXCEPT !["form-submit-btn"] =
                [innerHTML |-> IF loading THEN "Guardando..." ELSE originalText,
                 disabled |-> TRUE, originalText |-> originalText]]

\* setButtonLoading on the button element of markup generation `gen`; a
\* button of an earlier generation is detached and shows nothing.
P_setButtonLoading(d, gen, loading) ==
    IF gen # domGen THEN d
    ELSE LET btn == d["form-submit-btn"]
             originalText == IF btn.originalText # "" THEN btn.originalText
                             ELSE btn.innerHTML
         IN  [d EXCEPT !["form-submit-btn"] =
                [innerHTML |-> IF loading THEN "Guardando..." ELSE originalText,
                 disabled |-> loading, originalText |-> originalText]]

\* resetFormToCreateMode: what it does to the DOM (it also clears
\* editingProduct, which the callers below do).
P_resetFormToCreateMode(d) ==
    P_clearFormErrors(
        [d EXCEPT !["field-name"] = "", !["field-type"] = "",
                  !["field-price-standard"] = "", !["field-price-investor"] = "",
                  !["field-active"] = "true", !["field-id"] = "",
                  !["form-title"] = "Nuevo Producto",
                  !["form-submit-btn"].innerHTML = "Crear Producto",
                  !["form-cancel-btn"] = "none"])

\* ----------------------------------------------- suspended handler calls

\* What the table shows: the entity rows the user sees, and whether the
\* empty-state panel is displayed.
ShownTable ==
    LET wrapper == IF module = "products" THEN "table-wrapper"
                   ELSE "machines-table-wrapper"
        tbody == IF module = "products" THEN "products-tbody" ELSE "machines-tbody"
        empty == IF module = "products" THEN "table-empty" ELSE "machines-table-empty"
    IN  [rows |-> IF dom[wrapper] = "none" THEN <<>> ELSE dom[tbody],
         empty |-> dom[empty] = "flex"]

\* A handler invocation suspended at `await`: the handler, the await it is
\* at, the request in flight with its response once the backend answered,
\* and the locals the continuation reads (the submit button element, by the
\* markup generation it belongs to; the toggle's arguments).  cacheAtCall is
\* a history field no code reads: the cache as it was when the load the task
\* awaits was called (the empty list while the task awaits a mutation).
\* shownAtCall is another: the table as it showed when that load was called
\* (no row and no empty panel for the load of a mount, whose markup is new).
Task(h, pc, req, submitBtn, id, currentlyActive, cacheAtCall) ==
    [h |-> h, pc |-> pc, req |-> req, http |-> Pending, submitBtn |-> submitBtn,
     id |-> id, currentlyActive |-> currentlyActive, cacheAtCall |-> cacheAtCall,
     shownAtCall |-> [rows |-> <<>>, empty |-> FALSE]]

RemoveAt(seq, i) == SubSeq(seq, 1, i - 1) \o SubSeq(seq, i + 1, Len(seq))

\* A handler that returns after the mutation without awaiting a load.
AwaitReload_skipped(i, getAll, cache) == RemoveAt(tasks, i)

\* Task i goes on to `await load...()`: the getAll request is in flight.
AwaitReload(i, getAll, cache) ==
    [tasks EXCEPT ![i].pc = "reload", ![i].req = getAll, ![i].http = Pending,
                  ![i].cacheAtCall = cache, ![i].shownAtCall = ShownTable]

\* Task i's response has arrived and its continuation can run.
Arrived(i, h, pc) ==
    /\ i \in 1..Len(tasks)
    /\ tasks[i].h = h
    /\ tasks[i].pc = pc
    /\ tasks[i].http # Pending

\* The rows the user can click: those of the tbody while its wrapper shows.
ClickableRows(wrapper, tbody) ==
    IF dom[wrapper] = "none" THEN {} ELSE {dom[tbody][i] : i \in 1..Len(dom[tbody])}

\* An id of a row whose entity the cache does not hold.
VanishedId == "9"

\* The ids a row's data-id may carry.
RowIds == {String(n) : n \in 1..MaxEntities} \cup {VanishedId}

\* ------------------------------------------------- products.js: handlers

\* loadProducts up to its await: the spinner, and the request.
P_loadProducts_call(d) == P_showTableLoading(d, TRUE)

\* A loadProducts whose catch branch empties the list.
P_loadProducts_settle_clearing(d, r) ==
    IF r.threw
    THEN [dom |-> P_showTableLoading(
                    P_showFeedback(d, "Error al cargar productos: " \o r.message, "error"),
                    FALSE),
          allProducts |-> <<>>]
    ELSE [dom |-> P_updateCountBadge(P_renderTable(d, r.value), Len(r.value)),
          allProducts |-> r.value]

\* A loadProducts that keeps its list when the delivered one is shorter.
P_loadProducts_settle_keepingLonger(d, r) ==
    IF r.threw
    THEN [dom |-> P_showTableLoading(
                    P_showFeedback(d, "Error al cargar productos: " \o r.message, "error"),
                    FALSE),
          allProducts |-> allProducts]
    ELSE [dom |-> P_updateCountBadge(P_renderTable(d, r.value), Len(r.value)),
          allProducts |-> IF Len(r.value) < Len(allProducts) THEN allProducts
                          ELSE r.value]

\* loadProducts after its await, given what the await produced:
\* the DOM and allProducts afterwards.
P_loadProducts_settle(d, r) ==
    IF r.threw
    THEN [dom |-> P_showTableLoading(
                    P_showFeedback(d, "Error al cargar productos: " \o r.message, "error"),
                    FALSE),
          allProducts |-> allProducts]
    ELSE [dom |-> P_updateCountBadge(P_renderTable(d, r.value), Len(r.value)),
          allProducts |-> r.value]

UnchangedMachines == UNCHANGED <<editingMachine, allMachines, activeFilter>>

\* A step the user starts, and a step that continues a suspended handler.
UserEvent == events < MaxEvents /\ events' = events + 1
Continuation == UNCHANGED events

\* mountProducts, run again by the router (the first run is Init).
P_mountProducts ==
    /\ module = "products"
    /\ domGen < MaxMounts
    /\ Len(tasks) < MaxTasks
    /\ dom' = P_loadProducts_call(P_buildModuleHTML)
    /\ domGen' = domGen + 1
    /\ tasks' = Append(tasks, Task("loadProducts", "getAll", ProductsAPI_getAll, 0, "", FALSE, allProducts))
    /\ UNCHANGED <<module, backend, editingProduct, allProducts>>
    /\ UnchangedMachines
    /\ UserEvent

\* The continuation of the loadProducts() that mountProducts started.
P_loadProducts(i) ==
    /\ module = "products"
    /\ Arrived(i, "loadProducts", "getAll")
    /\ LET after == P_loadProducts_settle(dom, request(tasks[i].http))
       IN  /\ dom' = after.dom
           /\ allProducts' = after.allProducts
    /\ tasks' = RemoveAt(tasks, i)
    /\ UNCHANGED <<module, backend, editingProduct, domGen>>
    /\ UnchangedMachines
    /\ Continuation

\* handleFormSubmit up to its first await (or its early return).
P_handleFormSubmit ==
    /\ module = "products"
    /\ ~dom["form-submit-btn"].disabled
    /\ LET checked == P_validateForm(dom)
           payload == P_collectFormData(checked.dom)
       IN  IF ~checked.valid
           THEN /\ dom' = checked.dom
                /\ UNCHANGED tasks
           ELSE /\ Len(tasks) < MaxTasks
                /\ dom' = P_setButtonLoading(checked.dom, domGen, TRUE)
                /\ tasks' = Append(tasks,
                      Task("handleFormSubmit", "mutate",
                           IF editingProduct # Null
                           THEN ProductsAPI_update(editingProduct.id, payload)
                           ELSE ProductsAPI_create(payload),
                           domGen, "", FALSE, <<>>))
    /\ UNCHANGED <<module, backend, editingProduct, allProducts, domGen>>
    /\ UnchangedMachines
    /\ UserEvent

\* handleFormSubmit after `await ProductsAPI.update/create`.
P_handleFormSubmit_mutated(i) ==
    /\ module = "products"
    /\ Arrived(i, "handleFormSubmit", "mutate")
    /\ LET r == request(tasks[i].http)
       IN  IF r.threw
           THEN /\ dom' = P_setButtonLoading(
                            P_showFeedback(dom, "Error al guardar: " \o r.message, "error"),
                            tasks[i].submitBtn, FALSE)
                /\ tasks' = RemoveAt(tasks, i)
                /\ UNCHANGED editingProduct
           ELSE /\ dom' = P_loadProducts_call(
                            P_resetFormToCreateMode(
                              P_showFeedback(dom,
                                IF tasks[i].req.method = "PUT"
                                THEN "Producto actualizado correctamente."
                                ELSE "Producto creado correctamente.",
                                "success")))
                /\ editingProduct' = Null
                /\ tasks' = AwaitReload(i, ProductsAPI_getAll, allProducts)
    /\ UNCHANGED <<module, backend, allProducts, domGen>>
    /\ UnchangedMachines
    /\ Continuation

\* handleFormSubmit after `await loadProducts()`, through `finally`.
P_handleFormSubmit_reloaded(i) ==
    /\ module = "products"
    /\ Arrived(i, "handleFormSubmit", "reload")
    /\ LET after == P_loadProducts_settle(dom, request(tasks[i].http))
       IN  /\ dom' = P_setButtonLoading(after.dom, tasks[i].submitBtn, FALSE)
           /\ allProducts' = after.allProducts
    /\ tasks' = RemoveAt(tasks, i)
    /\ UNCHANGED <<module, backend, editingProduct, domGen>>
    /\ UnchangedMachines
    /\ Continuation

\* A handleEdit that reports a target it does not find.
P_handleEdit_reporting(productId) ==
    /\ module = "products"
    /\ productId \in {row.id : row \in ClickableRows("table-wrapper", "products-tbody")}
                     \cup {VanishedId}
    /\ LET Same(p) == String(p.id) = String(productId)
           product == find(allProducts, Same)
       IN  IF product = Null
           THEN /\ UNCHANGED editingProduct
                /\ dom' = P_showFeedback(dom, "Producto no encontrado.", "error")
           ELSE /\ editingProduct' = product
                /\ dom' = [dom EXCEPT
                     !["field-id"] = String(product.id),
                     !["field-name"] = product.name,
                     !["field-type"] = product.type,
                     !["field-price-standard"] =
                         IF product.priceStandard = 0 THEN ""
                         ELSE NumberText(product.priceStandard),
                     !["field-price-investor"] =
                         IF product.priceInvestor = Null THEN ""
                         ELSE NumberText(product.priceInvestor.number),
                     !["field-active"] =
                         IF "active" \in DOMAIN product /\ product.active = FALSE
                         THEN "false" ELSE "true",
                     !["form-title"] = "Editar Producto",
                     !["form-submit-btn"].innerHTML = "Guardar Cambios",
                     !["form-cancel-btn"] = "inline-flex"]
    /\ UNCHANGED <<module, backend, allProducts, domGen, tasks>>
    /\ UnchangedMachines
    /\ UserEvent

\* handleEdit(productId), from a row's edit button.
P_handleEdit(productId) ==
    /\ module = "products"
    /\ productId \in {row.id : row \in ClickableRows("table-wrapper", "products-tbody")}
                     \cup {VanishedId}
    /\ LET Same(p) == String(p.id) = String(productId)
           product == find(allProducts, Same)
       IN  IF product = Null
           THEN UNCHANGED <<editingProduct, dom>>
           ELSE /\ editingProduct' = product
                /\ dom' = [dom EXCEPT
                     !["field-id"] = String(product.id),
                     !["field-name"] = product.name,
                     !["field-type"] = product.type,
                     !["field-price-standard"] =
                         IF product.priceStandard = 0 THEN ""
                         ELSE NumberText(product.priceStandard),
                     !["field-price-investor"] =
                         IF product.priceInvestor = Null THEN ""
                         ELSE NumberText(product.priceInvestor.number),
                     !["field-active"] =
                         IF "active" \in DOMAIN product /\ product.active = FALSE
                         THEN "false" ELSE "true",
                     !["form-title"] = "Editar Producto",
                     !["form-submit-btn"].innerHTML = "Guardar Cambios",
                     !["form-cancel-btn"] = "inline-flex"]
    /\ UNCHANGED <<module, backend, allProducts, domGen, tasks>>
    /\ UnchangedMachines
    /\ UserEvent

\* A toggle that flips the clicked row before the request is answered.
P_handleToggleStatus_optimistic ==
    /\ module = "products"
    /\ \E row \in ClickableRows("table-wrapper", "products-tbody"), confirmed \in BOOLEAN :
        /\ IF ~confirmed
           THEN UNCHANGED <<tasks, dom>>
           ELSE /\ Len(tasks) < MaxTasks
                /\ tasks' = Append(tasks,
                      Task("handleToggleStatus", "mutate",
                           ProductsAPI_setStatus(row.id, ~row.active),
                           0, row.id, row.active, <<>>))
                /\ dom' = [dom EXCEPT !["products-tbody"] =
                             [k \in DOMAIN @ |->
                                IF @[k].id = row.id
                                THEN [@[k] EXCEPT !.active = ~row.active]
                                ELSE @[k]]]
        /\ UNCHANGED <<module, backend, editingProduct, allProducts, domGen>>
        /\ UnchangedMachines
        /\ UserEvent

\* handleToggleStatus(productId, currentlyActive), from a row's toggle
\* button, up to its await; the user may dismiss the confirm dialog.
P_handleToggleStatus ==
    /\ module = "products"
    /\ \E row \in ClickableRows("table-wrapper", "products-tbody"), confirmed \in BOOLEAN :
        /\ IF ~confirmed
           THEN UNCHANGED tasks
           ELSE /\ Len(tasks) < MaxTasks
                /\ tasks' = Append(tasks,
                      Task("handleToggleStatus", "mutate",
                           ProductsAPI_setStatus(row.id, ~row.active),
                           0, row.id, row.active, <<>>))
        /\ UNCHANGED <<module, backend, editingProduct, allProducts, dom, domGen>>
        /\ UnchangedMachines
        /\ UserEvent

\* handleToggleStatus after `await ProductsAPI.setStatus`.
P_handleToggleStatus_mutated(i) ==
    /\ module = "products"
    /\ Arrived(i, "handleToggleStatus", "mutate")
    /\ LET r == request(tasks[i].http)
       IN  IF r.threw
           THEN /\ dom' = P_showFeedback(dom,
                            "Error al cambiar estado: " \o r.message, "error")
                /\ tasks' = RemoveAt(tasks, i)
           ELSE /\ dom' = P_loadProducts_call(
                            P_showFeedback(dom,
                              IF tasks[i].currentlyActive THEN "Producto desactivado."
                              ELSE "Producto activado.",
                              "success"))
                /\ tasks' = AwaitReload(i, ProductsAPI_getAll, allProducts)
    /\ UNCHANGED <<module, backend, editingProduct, allProducts, domGen>>
    /\ UnchangedMachines
    /\ Continuation

\* handleToggleStatus after `await loadProducts()`.
P_handleToggleStatus_reloaded(i) ==
    /\ module = "products"
    /\ Arrived(i, "handleToggleStatus", "reload")
    /\ LET after == P_loadProducts_settle(dom, request(tasks[i].http))
       IN  /\ dom' = after.dom
           /\ allProducts' = after.allProducts
    /\ tasks' = RemoveAt(tasks, i)
    /\ UNCHANGED <<module, backend, editingProduct, domGen>>
    /\ UnchangedMachines
    /\ Continuation

\* A cancel listener that restores the form's look but keeps editingProduct.
P_cancel_keeping ==
    /\ module = "products"
    /\ dom["form-cancel-btn"] # "none"
    /\ dom' = P_resetFormToCreateMode(dom)
    /\ UNCHANGED <<module, backend, editingProduct, allProducts, domGen, tasks>>
    /\ UnchangedMachines
    /\ UserEvent

\* The cancel button's click listener: resetFormToCreateMode.  The button
\* is displayed only after handleEdit showed it.
P_cancel ==
    /\ module = "products"
    /\ dom["form-cancel-btn"] # "none"
    /\ editingProduct' = Null
    /\ dom' = P_resetFormToCreateMode(dom)
    /\ UNCHANGED <<module, backend, allProducts, domGen, tasks>>
    /\ UnchangedMachines
    /\ UserEvent

\* What the user types into the search box.
SearchInputs == {"", " B"}

\* handleSearch: the search box's input listener.
P_handleSearch ==
    \E value \in SearchInputs :
        /\ module = "products"
        /\ LET query == toLowerCase(trim(value))
               Hit(p) == includes(toLowerCase(p.name), query)
               filtered == IF query # "" THEN SelectSeq(allProducts, Hit)
                           ELSE allProducts
           IN  dom' = P_renderTable([dom EXCEPT !["table-search"] = value], filtered)
        /\ UNCHANGED <<module, backend, editingProduct, allProducts, domGen, tasks>>
        /\ UnchangedMachines
        /\ UserEvent

\* What the user types into the name and price inputs of the product
\* form, and picks in its type select, before a submit.
P_FormInputs ==
    { [name |-> "C", type |-> "produced", price |-> "5"],
      [name |-> " ab ", type |-> "produced", price |-> "5"],
      [name |-> " ", type |-> "produced", price |-> "-1"] }

\* The user fills the product form in.
P_input ==
    \E typed \in P_FormInputs :
        /\ module = "products"
        /\ dom' = [dom EXCEPT !["field-name"] = typed.name,
                              !["field-type"] = typed.type,
                              !["field-price-standard"] = typed.price]
        /\ UNCHANGED <<module, backend, editingProduct, allProducts, domGen, tasks>>
        /\ UnchangedMachines
        /\ UserEvent

\* The user picks a status in the form's select.
P_inputActive ==
    \E value \in {"true", "false"} :
        /\ module = "products"
        /\ dom' = [dom EXCEPT !["field-active"] = value]
        /\ UNCHANGED <<module, backend, editingProduct, allProducts, domGen, tasks>>
        /\ UnchangedMachines
        /\ UserEvent

\* ============================================================ machines.js

\* buildModuleHTML, as for Products.  "toast-container" is the page's own
\* element, outside the module markup: it holds the latest toast.
M_buildModuleHTML ==
    [ x \in {"machines-count-badge", "machine-form-title", "machine-cancel-btn",
             "machine-field-id", "machine-field-name", "machine-field-code",
             "machine-status-group", "machine-field-active", "machine-field-notes",
             "machine-error-name", "machine-error-code", "machine-submit-btn",
             "machines-filter-status", "machines-search", "machines-table-loading",
             "machines-table-empty", "machines-table-wrapper", "machines-tbody",
             "toast-container"} |->
        CASE x = "machines-count-badge" -> "- maquinas"
          [] x = "machine-form-title" -> "Nueva Maquina"
          [] x = "machine-cancel-btn" -> "none"
          [] x = "machine-status-group" -> "none"
          [] x = "machine-field-active" -> "true"
          [] x = "machine-submit-btn" ->
                [innerHTML |-> "Guardar Maquina", disabled |-> FALSE, originalText |-> ""]
          [] x = "machines-filter-status" -> "all"
          [] x = "machines-table-empty" -> "none"
          [] x = "machines-table-wrapper" -> "none"
          [] x = "machines-tbody" -> <<>>
          [] x = "toast-container" -> [message |-> "", type |-> ""]
          [] OTHER -> "" ]

M_showTableLoading(d, loading) ==
    [d EXCEPT !["machines-table-loading"] = IF loading THEN "flex" ELSE "none",
              !["machines-table-wrapper"] = IF loading THEN "none" ELSE "",
              !["machines-table-empty"] = "none"]

M_showFeedback(d, message, type) ==
    [d EXCEPT !["toast-container"] = [message |-> message, type |-> type]]

\* A badge that writes "X de Y" whenever a filtered count is passed.
M_updateCountBadge_always(d, total, filtered) ==
    LET noun == " maquina" \o (IF total # 1 THEN "s" ELSE "")
    IN  [d EXCEPT !["machines-count-badge"] =
            IF filtered # Null
            THEN ToString(filtered.number) \o " de " \o ToString(total) \o noun
            ELSE ToString(total) \o noun]

M_updateCountBadge(d, total, filtered) ==
    LET noun == " maquina" \o (IF total # 1 THEN "s" ELSE "")
    IN  [d EXCEPT !["machines-count-badge"] =
            IF filtered # Null /\ filtered.number # total
            THEN ToString(filtered.number) \o " de " \o ToString(total) \o noun
            ELSE ToString(total) \o noun]

\* A test that takes a machine without the flag for inactive.
M_notFalse_strict(machine) == "isActive" \in DOMAIN machine /\ machine.isActive = TRUE

\* machine.isActive !== false
M_notFalse(machine) == ~("isActive" \in DOMAIN machine /\ machine.isActive = FALSE)

M_buildTableRow(machine) ==
    [id |-> String(machine.id), active |-> M_notFalse(machine),
     name |-> machine.name, code |-> machine.code]

M_renderTable(d, machines) ==
    LET d1 == M_showTableLoading(d, FALSE)
    IN  IF Len(machines) = 0
        THEN [d1 EXCEPT !["machines-table-empty"] = "flex",
                        !["machines-table-wrapper"] = "none"]
        ELSE [d1 EXCEPT !["machines-table-empty"] = "none",
                        !["machines-table-wrapper"] = "block",
                        !["machines-tbody"] =
                            [i \in 1..Len(machines) |-> M_buildTableRow(machines[i])]]

\* A filter whose text search looks at the name only.
M_filtered_nameOnly(d, machines) ==
    LET query == toLowerCase(trim(d["machines-search"]))
        status == IF d["machines-filter-status"] = "" THEN "all"
                  ELSE d["machines-filter-status"]
        Hit(m) == includes(toLowerCase(m.name), query)
        IsInactive(m) == ~M_notFalse(m)
        byText == IF query # "" THEN SelectSeq(machines, Hit) ELSE machines
    IN  IF status = "active" THEN SelectSeq(byText, M_notFalse)
        ELSE IF status = "inactive" THEN SelectSeq(byText, IsInactive)
        ELSE byText

\* The machines applyFilters renders, for cache `machines`.
M_filtered(d, machines) ==
    LET query == toLowerCase(trim(d["machines-search"]))
        status == IF d["machines-filter-status"] = "" THEN "all"
                  ELSE d["machines-filter-status"]
        Hit(m) == includes(toLowerCase(m.name), query)
                  \/ includes(toLowerCase(m.code), query)
        IsInactive(m) == ~M_notFalse(m)
        byText == IF query # "" THEN SelectSeq(machines, Hit) ELSE machines
    IN  IF status = "active" THEN SelectSeq(byText, M_notFalse)
        ELSE IF status = "inactive" THEN SelectSeq(byText, IsInactive)
        ELSE byText

\* applyFilters: what it does to the DOM (it also stores the status in
\* activeFilter, which the callers below do).
M_applyFilters(d, machines) ==
    LET query == toLowerCase(trim(d["machines-search"]))
        status == IF d["machines-filter-status"] = "" THEN "all"
                  ELSE d["machines-filter-status"]
        results == M_filtered(d, machines)
        isFiltered == query # "" \/ status # "all"
    IN  M_renderTable(
            M_updateCountBadge(d, Len(machines),
                IF isFiltered THEN [number |-> Len(results)] ELSE Null),
            results)

\* The status applyFilters stores in activeFilter.
M_statusOf(d) ==
    IF d["machines-filter-status"] = "" THEN "all" ELSE d["machines-filter-status"]

\* A name check that compares every entry, the edited one included.
M_isNameDuplicate_unexcluded(name, machines, editing) ==
    LET normalized == toLowerCase(trim(name))
        Clash(m) == toLowerCase(trim(m.name)) = normalized
    IN  some(machines, Clash)

M_isNameDuplicate(name, machines, editing) ==
    LET normalized == toLowerCase(trim(name))
        Clash(m) == IF editing # Null /\ String(m.id) = String(editing.id) THEN FALSE
                    ELSE toLowerCase(trim(m.name)) = normalized
    IN  some(machines, Clash)

M_isCodeDuplicate(code, machines, editing) ==
    LET normalized == toLowerCase(trim(code))
        Clash(m) == IF editing # Null /\ String(m.id) = String(editing.id) THEN FALSE
                    ELSE toLowerCase(trim(m.code)) = normalized
    IN  some(machines, Clash)

M_clearFormErrors(d) ==
    [d EXCEPT !["machine-error-name"] = "", !["machine-error-code"] = ""]

M_showFieldError(d, errorId, message) == [d EXCEPT ![errorId] = message]

\* validateForm: <<valid, the DOM with the inline errors>>.
M_validateForm(d) ==
    LET name == trim(d["machine-field-name"])
        code == trim(d["machine-field-code"])
        nameError ==
            IF name = "" THEN "El nombre de la maquina es obligatorio."
            ELSE IF M_isNameDuplicate(name, allMachines, editingMachine)
            THEN "Ya existe una maquina llamada \"" \o name
                 \o "\". Usa un nombre diferente."
            ELSE ""
        codeError ==
            IF code = "" THEN "El codigo de la maquina es obligatorio."
            ELSE IF M_isCodeDuplicate(code, allMachines, editingMachine)
            THEN "El codigo \"" \o code \o "\" ya esta en uso. Ingresa un codigo unico."
            ELSE ""
        d0 == M_clearFormErrors(d)
        d1 == IF nameError # "" THEN M_showFieldError(d0, "machine-error-name", nameError)
              ELSE d0
        d2 == IF codeError # "" THEN M_showFieldError(d1, "machine-error-code", codeError)
              ELSE d1
    IN  [valid |-> nameError = "" /\ codeError = "", dom |-> d2]

M_collectFormData(d) ==
    LET payload == [name |-> trim(d["machine-field-name"]),
                    code |-> trim(d["machine-field-code"]),
                    notes |-> trim(d["machine-field-notes"])]
    IN  IF d["machine-status-group"] # "none"
        THEN Spread(payload, [isActive |-> d["machine-field-active"] = "true"])
        ELSE payload

M_setButtonLoading(d, gen, loading) ==
    IF gen # domGen THEN d
    ELSE LET btn == d["machine-submit-btn"]
             originalText == IF btn.originalText # "" THEN btn.originalText
                             ELSE btn.innerHTML
         IN  [d EXCEPT !["machine-submit-btn"] =
                [innerHTML |-> IF loading THEN "Guardando..." ELSE originalText,
                 disabled |-> loading, originalText |-> originalText]]

\* resetFormToCreateMode: what it does to the DOM (it also clears
\* editingMachine, which the callers below do).
M_resetFormToCreateMode(d) ==
    M_clearFormErrors(
        [d EXCEPT !["machine-field-name"] = "", !["machine-field-code"] = "",
                  !["machine-field-notes"] = "", !["machine-field-active"] = "true",
                  !["machine-field-id"] = "",
                  !["machine-status-group"] = "none",
                  !["machine-form-title"] = "Nueva Maquina",
                  !["machine-submit-btn"].innerHTML = "Guardar Maquina",
                  !["machine-cancel-btn"] = "none"])

\* ------------------------------------------------- machines.js: handlers

M_loadMachines_call(d) == M_showTableLoading(d, TRUE)

\* A loadMachines whose catch branch writes the list too.
M_loadMachines_settle_emptying(d, r) ==
    IF r.threw
    THEN [dom |-> M_showTableLoading(
                    M_showFeedback(d, "Error al cargar maquinas: " \o r.message, "error"),
                    FALSE),
          allMachines |-> <<>>,
          activeFilter |-> activeFilter]
    ELSE [dom |-> M_applyFilters(d, r.value),
          allMachines |-> r.value,
          activeFilter |-> M_statusOf(d)]

\* loadMachines after its await: the DOM, allMachines and activeFilter
\* afterwards.
M_loadMachines_settle(d, r) ==
    IF r.threw
    THEN [dom |-> M_showTableLoading(
                    M_showFeedback(d, "Error al cargar maquinas: " \o r.message, "error"),
                    FALSE),
          allMachines |-> allMachines,
          activeFilter |-> activeFilter]
    ELSE [dom |-> M_applyFilters(d, r.value),
          allMachines |-> r.value,
          activeFilter |-> M_statusOf(d)]

UnchangedProducts == UNCHANGED <<editingProduct, allProducts>>

\* mountMachines, run again by the router (the first run is Init).
M_mountMachines ==
    /\ module = "machines"
    /\ domGen < MaxMounts
    /\ Len(tasks) < MaxTasks
    /\ dom' = M_loadMachines_call(
                [M_buildModuleHTML EXCEPT !["toast-container"] = dom["toast-container"]])
    /\ domGen' = domGen + 1
    /\ tasks' = Append(tasks, Task("loadMachines", "getAll", MachinesAPI_getAll, 0, "", FALSE, allMachines))
    /\ UNCHANGED <<module, backend, editingMachine, allMachines, activeFilter>>
    /\ UnchangedProducts
    /\ UserEvent

\* The continuation of the loadMachines() that mountMachines started.
M_loadMachines(i) ==
    /\ module = "machines"
    /\ Arrived(i, "loadMachines", "getAll")
    /\ LET after == M_loadMachines_settle(dom, request(tasks[i].http))
       IN  /\ dom' = after.dom
           /\ allMachines' = after.allMachines
           /\ activeFilter' = after.activeFilter
    /\ tasks' = RemoveAt(tasks, i)
    /\ UNCHANGED <<module, backend, editingMachine, domGen>>
    /\ UnchangedProducts
    /\ Continuation

\* handleFormSubmit up to its first await (or its early return).
M_handleFormSubmit ==
    /\ module = "machines"
    /\ ~dom["machine-submit-btn"].disabled
    /\ LET checked == M_validateForm(dom)
           payload == M_collectFormData(checked.dom)
       IN  IF ~checked.valid
           THEN /\ dom' = checked.dom
                /\ UNCHANGED tasks
           ELSE /\ Len(tasks) < MaxTasks
                /\ dom' = M_setButtonLoading(checked.dom, domGen, TRUE)
                /\ tasks' = Append(tasks,
                      Task("handleFormSubmit", "mutate",
                           IF editingMachine # Null
                           THEN MachinesAPI_update(editingMachine.id, payload)
                           ELSE MachinesAPI_create(payload),
                           domGen, "", FALSE, <<>>))
    /\ UNCHANGED <<module, backend, editingMachine, allMachines, activeFilter, domGen>>
    /\ UnchangedProducts
    /\ UserEvent

\* handleFormSubmit after `await MachinesAPI.update/create`.
M_handleFormSubmit_mutated(i) ==
    /\ module = "machines"
    /\ Arrived(i, "handleFormSubmit", "mutate")
    /\ LET r == request(tasks[i].http)
       IN  IF r.threw
           THEN /\ dom' = M_setButtonLoading(
                            M_showFeedback(dom, "Error al guardar: " \o r.message, "error"),
                            tasks[i].submitBtn, FALSE)
                /\ tasks' = RemoveAt(tasks, i)
                /\ UNCHANGED editingMachine
           ELSE /\ dom' = M_loadMachines_call(
                            M_resetFormToCreateMode(
                              M_showFeedback(dom,
                                IF tasks[i].req.method = "PUT"
                                THEN "Maquina actualizada correctamente."
                                ELSE "Maquina creada correctamente.",
                                "success")))
                /\ editingMachine' = Null
                /\ tasks' = AwaitReload(i, MachinesAPI_getAll, allMachines)
    /\ UNCHANGED <<module, backend, allMachines, activeFilter, domGen>>
    /\ UnchangedProducts
    /\ Continuation

\* handleFormSubmit after `await loadMachines()`, through `finally`.
M_handleFormSubmit_reloaded(i) ==
    /\ module = "machines"
    /\ Arrived(i, "handleFormSubmit", "reload")
    /\ LET after == M_loadMachines_settle(dom, request(tasks[i].http))
       IN  /\ dom' = M_setButtonLoading(after.dom, tasks[i].submitBtn, FALSE)
           /\ allMachines' = after.allMachines
           /\ activeFilter' = after.activeFilter
    /\ tasks' = RemoveAt(tasks, i)
    /\ UNCHANGED <<module, backend, editingMachine, domGen>>
    /\ UnchangedProducts
    /\ Continuation

\* handleEdit(machineId), from a row's edit button.
M_handleEdit(machineId) ==
    /\ module = "machines"
    /\ machineId \in {row.id : row \in ClickableRows("machines-table-wrapper", "machines-tbody")}
                     \cup {VanishedId}
    /\ LET Same(m) == String(m.id) = String(machineId)
           machine == find(allMachines, Same)
       IN  IF machine = Null
           THEN UNCHANGED <<editingMachine, dom>>
           ELSE /\ editingMachine' = machine
                /\ dom' = [dom EXCEPT
                     !["machine-field-id"] = String(machine.id),
                     !["machine-field-name"] = machine.name,
                     !["machine-field-code"] = machine.code,
                     !["machine-field-notes"] = machine.notes,
                     !["machine-field-active"] =
                         IF M_notFalse(machine) THEN "true" ELSE "false",
                     !["machine-status-group"] = "",
                     !["machine-form-title"] = "Editar Maquina",
                     !["machine-submit-btn"].innerHTML = "Guardar Cambios",
                     !["machine-cancel-btn"] = "inline-flex"]
    /\ UNCHANGED <<module, backend, allMachines, activeFilter, domGen, tasks>>
    /\ UnchangedProducts
    /\ UserEvent

\* handleToggleStatus(machineId, currentlyActive), from a row's toggle
\* button, up to its await; the user may dismiss the confirm dialog.
M_handleToggleStatus ==
    /\ module = "machines"
    /\ \E row \in ClickableRows("machines-table-wrapper", "machines-tbody"),
           confirmed \in BOOLEAN :
        /\ IF ~confirmed
           THEN UNCHANGED tasks
           ELSE /\ Len(tasks) < MaxTasks
                /\ tasks' = Append(tasks,
                      Task("handleToggleStatus", "mutate",
                           IF row.active THEN MachinesAPI_deactivate(row.id)
                           ELSE MachinesAPI_activate(row.id),
                           0, row.id, row.active, <<>>))
        /\ UNCHANGED <<module, backend, editingMachine, allMachines, activeFilter,
                       dom, domGen>>
        /\ UnchangedProducts
        /\ UserEvent

\* A toggle that leaves the open form's status field as it was.
M_refreshStatusField_stale(d, wasOpen, currentlyActive) == d

\* handleToggleStatus: the edit form's status field once the toggle succeeded,
\* refreshed when the toggled machine is the one open in the form.
M_refreshStatusField(d, wasOpen, currentlyActive) ==
    IF wasOpen
    THEN [d EXCEPT !["machine-field-active"] =
            IF ~currentlyActive THEN "true" ELSE "false"]
    ELSE d

\* handleToggleStatus after `await MachinesAPI.deactivate/activate`.
M_handleToggleStatus_mutated(i) ==
    /\ module = "machines"
    /\ Arrived(i, "handleToggleStatus", "mutate")
    /\ LET r == request(tasks[i].http)
           machineId == tasks[i].id
           currentlyActive == tasks[i].currentlyActive
           wasOpen == editingMachine # Null
                      /\ String(editingMachine.id) = String(machineId)
           shown == M_showFeedback(dom,
                      IF currentlyActive THEN "Maquina desactivada."
                      ELSE "Maquina activada.",
                      IF currentlyActive THEN "warning" ELSE "success")
       IN  IF r.threw
           THEN /\ dom' = M_showFeedback(dom,
                            "Error al cambiar estado: " \o r.message, "error")
                /\ tasks' = RemoveAt(tasks, i)
                /\ UNCHANGED editingMachine
           ELSE /\ editingMachine' =
                      IF wasOpen
                      THEN Spread(editingMachine, [isActive |-> ~currentlyActive])
                      ELSE editingMachine
                /\ dom' = M_loadMachines_call(
                            M_refreshStatusField(shown, wasOpen, currentlyActive))
                /\ tasks' = AwaitReload(i, MachinesAPI_getAll, allMachines)
    /\ UNCHANGED <<module, backend, allMachines, activeFilter, domGen>>
    /\ UnchangedProducts
    /\ Continuation

\* handleToggleStatus after `await loadMachines()`.
M_handleToggleStatus_reloaded(i) ==
    /\ module = "machines"
    /\ Arrived(i, "handleToggleStatus", "reload")
    /\ LET after == M_loadMachines_settle(dom, request(tasks[i].http))
       IN  /\ dom' = after.dom
           /\ allMachines' = after.allMachines
           /\ activeFilter' = after.activeFilter
    /\ tasks' = RemoveAt(tasks, i)
    /\ UNCHANGED <<module, backend, editingMachine, domGen>>
    /\ UnchangedProducts
    /\ Continuation

\* The cancel button's click listener: resetFormToCreateMode.
M_cancel ==
    /\ module = "machines"
    /\ dom["machine-cancel-btn"] # "none"
    /\ editingMachine' = Null
    /\ dom' = M_resetFormToCreateMode(dom)
    /\ UNCHANGED <<module, backend, allMachines, activeFilter, domGen, tasks>>
    /\ UnchangedProducts
    /\ UserEvent

\* applyFilters as the listener of the search box (input) and of the
\* status filter (change): the user has just set that control.
M_applyFiltersEvent ==
    \E control \in {"machines-search", "machines-filter-status"} :
      \E value \in IF control = "machines-search" THEN SearchInputs
                   ELSE {"all", "active", "inactive"} :
        /\ module = "machines"
        /\ LET d == [dom EXCEPT ![control] = value]
           IN  /\ dom' = M_applyFilters(d, allMachines)
               /\ activeFilter' = M_statusOf(d)
        /\ UNCHANGED <<module, backend, editingMachine, allMachines, domGen, tasks>>
        /\ UnchangedProducts
        /\ UserEvent

\* What the user types into the name and code inputs of the machine form
\* before a submit.
M_FormInputs ==
    { [name |-> "C", code |-> "M3"],
      [name |-> " ab ", code |-> "M3"],
      [name |-> "C", code |-> " m1 "],
      [name |-> " ", code |-> ""] }

\* The user fills the machine form in.
M_input ==
    \E typed \in M_FormInputs :
        /\ module = "machines"
        /\ dom' = [dom EXCEPT !["machine-field-name"] = typed.name,
                              !["machine-field-code"] = typed.code]
        /\ UNCHANGED <<module, backend, editingMachine, allMachines, activeFilter,
                       domGen, tasks>>
        /\ UnchangedProducts
        /\ UserEvent

\* The user picks a status in the form's select, which shows in edit mode.
M_inputActive ==
    \E value \in {"true", "false"} :
        /\ module = "machines"
        /\ dom["machine-status-group"] # "none"
        /\ dom' = [dom EXCEPT !["machine-field-active"] = value]
        /\ UNCHANGED <<module, backend, editingMachine, allMachines, activeFilter,
                       domGen, tasks>>
        /\ UnchangedProducts
        /\ UserEvent

\* ------------------------------------------------- the backend's steps

\* The backend handles the request of task i and answers it.
BackendAnswers(i) ==
    /\ i \in 1..Len(tasks)
    /\ tasks[i].http = Pending
    /\ LET answer == BackendAnswer(tasks[i].req, backend)
       IN  /\ tasks' = [tasks EXCEPT ![i].http = answer[1]]
           /\ backend' = answer[2]
    /\ UNCHANGED <<module, editingProduct, allProducts, editingMachine,
                   allMachines, activeFilter, dom, domGen, events>>

\* The request of task i fails: the backend's list is as it was.
BackendFails(i) ==
    \E http \in ErrorResponses :
        /\ i \in 1..Len(tasks)
        /\ tasks[i].http = Pending
        /\ tasks' = [tasks EXCEPT ![i].http = http]
        /\ UNCHANGED <<module, backend, editingProduct, allProducts, editingMachine,
                       allMachines, activeFilter, dom, domGen, events>>

\* --------------------------------------------------------- specification

\* The lists the backend may hold when the module is first mounted.
P_InitialBackends ==
    { <<>>,
      << [id |-> 1, name |-> "Ab", type |-> "produced", priceStandard |-> 5,
          priceInvestor |-> Null, active |-> TRUE] >> }

\* The state once the router has run mountProducts for the first time.
P_Init ==
    /\ module = "products"
    /\ backend \in P_InitialBackends
    /\ editingProduct = Null
    /\ allProducts = <<>>
    /\ editingMachine = Null
    /\ allMachines = <<>>
    /\ activeFilter = "all"
    /\ dom = P_loadProducts_call(P_buildModuleHTML)
    /\ domGen = 1
    /\ tasks = <<Task("loadProducts", "getAll", ProductsAPI_getAll, 0, "", FALSE, allProducts)>>
    /\ events = 0

M_InitialBackends ==
    { <<>>,
      << [id |-> 1, name |-> "Ab", code |-> "M1", notes |-> "", isActive |-> TRUE] >> }

\* The state once the router has run mountMachines for the first time.
M_Init ==
    /\ module = "machines"
    /\ backend \in M_InitialBackends
    /\ editingProduct = Null
    /\ allProducts = <<>>
    /\ editingMachine = Null
    /\ allMachines = <<>>
    /\ activeFilter = "all"
    /\ dom = M_loadMachines_call(M_buildModuleHTML)
    /\ domGen = 1
    /\ tasks = <<Task("loadMachines", "getAll", MachinesAPI_getAll, 0, "", FALSE, allMachines)>>
    /\ events = 0

Init == P_Init \/ M_Init

Next ==
    \/ P_mountProducts
    \/ \E i \in 1..Len(tasks) : P_loadProducts(i)
    \/ P_handleFormSubmit
    \/ \E i \in 1..Len(tasks) : P_handleFormSubmit_mutated(i)
    \/ \E i \in 1..Len(tasks) : P_handleFormSubmit_reloaded(i)
    \/ \E id \in RowIds : P_handleEdit(id)
    \/ P_handleToggleStatus
    \/ \E i \in 1..Len(tasks) : P_handleToggleStatus_mutated(i)
    \/ \E i \in 1..Len(tasks) : P_handleToggleStatus_reloaded(i)
    \/ P_cancel
    \/ P_handleSearch
    \/ P_input
    \/ P_inputActive
    \/ M_mountMachines
    \/ \E i \in 1..Len(tasks) : M_loadMachines(i)
    \/ M_handleFormSubmit
    \/ \E i \in 1..Len(tasks) : M_handleFormSubmit_mutated(i)
    \/ \E i \in 1..Len(tasks) : M_handleFormSubmit_reloaded(i)
    \/ \E id \in RowIds : M_handleEdit(id)
    \/ M_handleToggleStatus
    \/ \E i \in 1..Len(tasks) : M_handleToggleStatus_mutated(i)
    \/ \E i \in 1..Len(tasks) : M_handleToggleStatus_reloaded(i)
    \/ M_cancel
    \/ M_applyFiltersEvent
    \/ M_input
    \/ M_inputActive
    \/ \E i \in 1..Len(tasks) : BackendAnswers(i)
    \/ \E i \in 1..Len(tasks) : BackendFails(i)

Spec == Init /\ [][Next]_vars

\* ------------------------------------------- the Machines filter on its own

\* The machine the backend may hold under id k: a name and code the search
\* text "b" finds by name, by code or not at all, with the isActive flag
\* true, false or absent.
M_FilterMachines(k) ==
    LET texts == { [name |-> "Ab", code |-> "M1"], [name |-> "C", code |-> "MB"],
                   [name |-> "C", code |-> "M3"] }
    IN  UNION { { [id |-> k, name |-> t.name, code |-> t.code, notes |-> ""],
                  [id |-> k, name |-> t.name, code |-> t.code, notes |-> "",
                   isActive |-> TRUE],
                  [id |-> k, name |-> t.name, code |-> t.code, notes |-> "",
                   isActive |-> FALSE] } : t \in texts }

\* The lists of up to MaxEntities such machines.
M_FilterBackends ==
    UNION { { list \in [1..n -> UNION {M_FilterMachines(k) : k \in 1..n}] :
                \A k \in 1..n : list[k] \in M_FilterMachines(k) } :
            n \in 0..MaxEntities }

\* mountMachines has run for the first time, over any such backend.
M_FilterInit ==
    /\ module = "machines"
    /\ backend \in M_FilterBackends
    /\ editingProduct = Null
    /\ allProducts = <<>>
    /\ editingMachine = Null
    /\ allMachines = <<>>
    /\ activeFilter = "all"
    /\ dom = M_loadMachines_call(M_buildModuleHTML)
    /\ domGen = 1
    /\ tasks = <<Task("loadMachines", "getAll", MachinesAPI_getAll, 0, "", FALSE, allMachines)>>
    /\ events = 0

\* The load, and the user at the search box and the status filter.
M_FilterNext ==
    \/ \E i \in 1..Len(tasks) : BackendAnswers(i)
    \/ \E i \in 1..Len(tasks) : BackendFails(i)
    \/ \E i \in 1..Len(tasks) : M_loadMachines(i)
    \/ M_applyFiltersEvent

M_FilterSpec == M_FilterInit /\ [][M_FilterNext]_vars

\* ---------------------------------------------------------------------
\* request() on its own: one call, over the responses fetch can resolve to.

\* Statuses on both sides of each boundary of response.ok, and 204.
ResponseStatuses == {199, 200, 201, 204, 299, 300, 404, 500}

ResponseStatusTexts == {"", "Not Found"}

\* Bodies: not JSON, JSON null, objects with and without a message, an
\* entity; a list of entities is read only from a 2xx response.
ResponseBodies ==
    { [parses |-> FALSE, data |-> Null],
      [parses |-> TRUE, data |-> Null],
      [parses |-> TRUE, data |-> [message |-> "db down"]],
      [parses |-> TRUE, data |-> [message |-> ""]],
      [parses |-> TRUE, data |-> [error |-> "db down"]],
      [parses |-> TRUE, data |-> [id |-> 1, name |-> "Ab", message |-> "hi"]] }

Responses ==
    { [status |-> st, statusText |-> tx, body |-> b] :
        st \in ResponseStatuses, tx \in ResponseStatusTexts, b \in ResponseBodies }
    \cup
    { [status |-> st, statusText |-> "OK",
       body |-> [parses |-> TRUE, data |-> <<[id |-> 1, name |-> "Ab"]>>]] :
        st \in {200, 204} }

RequestInit ==
    /\ module = "products"
    /\ backend = <<>>
    /\ editingProduct = Null
    /\ allProducts = <<>>
    /\ editingMachine = Null
    /\ allMachines = <<>>
    /\ activeFilter = "all"
    /\ dom = P_buildModuleHTML
    /\ domGen = 1
    /\ tasks = <<[h |-> "request", pc |-> "fetch", req |-> ProductsAPI_getAll,
                  http |-> Pending, outcome |-> Returned(Null)]>>
    /\ events = 0

\* `await fetch(url, config)` resolves to a response.
request_fetched ==
    /\ tasks[1].pc = "fetch"
    /\ \E r \in Responses :
         tasks' = [tasks EXCEPT ![1].pc = "response", ![1].http = r]
    /\ UNCHANGED <<module, backend, editingProduct, allProducts, editingMachine,
                   allMachines, activeFilter, dom, domGen, events>>

\* The rest of request(): it returns or throws.
request_settled ==
    /\ tasks[1].pc = "response"
    /\ tasks' = [tasks EXCEPT ![1].pc = "done", ![1].outcome = request(tasks[1].http)]
    /\ UNCHANGED <<module, backend, editingProduct, allProducts, editingMachine,
                   allMachines, activeFilter, dom, domGen, events>>

RequestNext == request_fetched \/ request_settled

RequestSpec == RequestInit /\ [][RequestNext]_vars

\* ---------------------------------------------------------------------
\* The toggle on a row the cache does not hold.  The page gets there under
\* Spec: the user saves a new entity "C" while the mount's load is still out
\* (the backend answered it with the empty list), the reload after the save
\* settles first and renders the row, the user toggles that row, the mount's
\* load settles and empties the cache (renderTable keeps the old row in the
\* hidden tbody), and the reload after the toggle fails (showTableLoading
\* shows the tbody again).  The count of user events starts anew.

P_StaleRowPage ==
    /\ module = "products"
    /\ backend = << [id |-> 1, active |-> FALSE, type |-> "produced", name |-> "C",
                     priceStandard |-> 5, priceInvestor |-> Null] >>
    /\ editingProduct = Null
    /\ allProducts = <<>>
    /\ editingMachine = Null
    /\ allMachines = <<>>
    /\ activeFilter = "all"
    /\ dom = [P_buildModuleHTML EXCEPT
                !["products-count-badge"] = "0 productos",
                !["form-submit-btn"].originalText = "Crear Producto",
                !["feedback-banner"] =
                    [textContent |-> "Error al cargar productos: db down",
                     type |-> "error"],
                !["table-loading"] = "none",
                !["table-wrapper"] = "",
                !["products-tbody"] =
                    <<P_buildTableRow([backend[1] EXCEPT !.active = TRUE])>>]
    /\ domGen = 1
    /\ tasks = <<>>

P_StaleRowInit == P_StaleRowPage /\ events = 0

M_StaleRowPage ==
    /\ module = "machines"
    /\ backend = << [id |-> 1, isActive |-> FALSE, name |-> "C", code |-> "M3",
                     notes |-> ""] >>
    /\ editingProduct = Null
    /\ allProducts = <<>>
    /\ editingMachine = Null
    /\ allMachines = <<>>
    /\ activeFilter = "all"
    /\ dom = [M_buildModuleHTML EXCEPT
                !["machines-count-badge"] = "0 maquinas",
                !["machine-submit-btn"].originalText = "Guardar Maquina",
                !["toast-container"] =
                    [message |-> "Error al cargar maquinas: db down",
                     type |-> "error"],
                !["machines-table-loading"] = "none",
                !["machines-table-wrapper"] = "",
                !["machines-tbody"] =
                    <<M_buildTableRow([backend[1] EXCEPT !.isActive = TRUE])>>]
    /\ domGen = 1
    /\ tasks = <<>>

M_StaleRowInit == M_StaleRowPage /\ events = 0

StaleRowInit == P_StaleRowInit \/ M_StaleRowInit

StaleRowNext ==
    \/ P_handleToggleStatus
    \/ M_handleToggleStatus
    \/ \E id \in RowIds : P_handleEdit(id)
    \/ \E id \in RowIds : M_handleEdit(id)
    \/ \E i \in 1..Len(tasks) : BackendAnswers(i)
    \/ \E i \in 1..Len(tasks) : BackendFails(i)
    \/ \E i \in 1..Len(tasks) : P_handleToggleStatus_mutated(i)
    \/ \E i \in 1..Len(tasks) : P_handleToggleStatus_reloaded(i)
    \/ \E i \in 1..Len(tasks) : M_handleToggleStatus_mutated(i)
    \/ \E i \in 1..Len(tasks) : M_handleToggleStatus_reloaded(i)

StaleRowSpec == StaleRowInit /\ [][StaleRowNext]_vars

\* ---------------------------------------------------------------------
\* The Machines module mounted again while a machine is open in the form.
\* The page gets there under Spec: the first load shows machine 1, the user
\* clicks its edit button, and the router runs mountMachines again (new
\* markup, a new load; editingMachine is not assigned).  The count of user
\* events starts anew.

M_RemountedPage ==
    /\ module = "machines"
    /\ backend = << [id |-> 1, name |-> "Ab", code |-> "M1", notes |-> "",
                     isActive |-> TRUE] >>
    /\ editingProduct = Null
    /\ allProducts = <<>>
    /\ editingMachine = backend[1]
    /\ allMachines = backend
    /\ activeFilter = "all"
    /\ dom = M_loadMachines_call(M_buildModuleHTML)
    /\ domGen = 2
    /\ tasks = <<Task("loadMachines", "getAll", MachinesAPI_getAll, 0, "", FALSE,
                      allMachines)>>

M_RemountedInit == M_RemountedPage /\ events = 0

M_RemountedNext ==
    \/ \E i \in 1..Len(tasks) : M_loadMachines(i)
    \/ M_handleFormSubmit
    \/ \E i \in 1..Len(tasks) : M_handleFormSubmit_mutated(i)
    \/ \E i \in 1..Len(tasks) : M_handleFormSubmit_reloaded(i)
    \/ \E id \in RowIds : M_handleEdit(id)
    \/ M_handleToggleStatus
    \/ \E i \in 1..Len(tasks) : M_handleToggleStatus_mutated(i)
    \/ \E i \in 1..Len(tasks) : M_handleToggleStatus_reloaded(i)
    \/ M_cancel
    \/ M_input
    \/ M_inputActive
    \/ \E i \in 1..Len(tasks) : BackendAnswers(i)
    \/ \E i \in 1..Len(tasks) : BackendFails(i)

M_RemountedSpec == M_RemountedInit /\ [][M_RemountedNext]_vars

\* ---------------------------------------------------------------------
\* The application when no request fails: every request is answered, and
\* with a 2xx response.

BackendSucceeds(i) ==
    /\ BackendAnswers(i)
    /\ tasks'[i].http.status \in 200..299

AllSucceedNext ==
    \/ P_mountProducts
    \/ \E i \in 1..Len(tasks) : P_loadProducts(i)
    \/ P_handleFormSubmit
    \/ \E i \in 1..Len(tasks) : P_handleFormSubmit_mutated(i)
    \/ \E i \in 1..Len(tasks) : P_handleFormSubmit_reloaded(i)
    \/ \E id \in RowIds : P_handleEdit(id)
    \/ P_handleToggleStatus
    \/ \E i \in 1..Len(tasks) : P_handleToggleStatus_mutated(i)
    \/ \E i \in 1..Len(tasks) : P_handleToggleStatus_reloaded(i)
    \/ P_cancel
    \/ P_handleSearch
    \/ P_input
    \/ P_inputActive
    \/ M_mountMachines
    \/ \E i \in 1..Len(tasks) : M_loadMachines(i)
    \/ M_handleFormSubmit
    \/ \E i \in 1..Len(tasks) : M_handleFormSubmit_mutated(i)
    \/ \E i \in 1..Len(tasks) : M_handleFormSubmit_reloaded(i)
    \/ \E id \in RowIds : M_handleEdit(id)
    \/ M_handleToggleStatus
    \/ \E i \in 1..Len(tasks) : M_handleToggleStatus_mutated(i)
    \/ \E i \in 1..Len(tasks) : M_handleToggleStatus_reloaded(i)
    \/ M_cancel
    \/ M_applyFiltersEvent
    \/ M_input
    \/ M_inputActive
    \/ \E i \in 1..Len(tasks) : BackendSucceeds(i)

AllSucceedSpec == Init /\ [][AllSucceedNext]_vars

\* ============================================================ properties

\* The cache and the entity being edited of the mounted module, and its
\* latest notification as [message, type].
Cache == IF module = "products" THEN allProducts ELSE allMachines
EditingEntity == IF module = "products" THEN editingProduct ELSE editingMachine
Notification ==
    IF module = "products"
    THEN [message |-> dom["feedback-banner"].textContent,
          type |-> dom["feedback-banner"].type]
    ELSE dom["toast-container"]

\* This step is the continuation of the load that task i awaited.
LoadSettles(i) ==
    \/ P_loadProducts(i)
    \/ P_handleFormSubmit_reloaded(i)
    \/ P_handleToggleStatus_reloaded(i)
    \/ M_loadMachines(i)
    \/ M_handleFormSubmit_reloaded(i)
    \/ M_handleToggleStatus_reloaded(i)

\* The response task i received is a failure (not 2xx).
Failed(i) == ~(tasks[i].http.status \in 200..299)

LoadErrorText ==
    IF module = "products" THEN "Error al cargar productos: "
    ELSE "Error al cargar maquinas: "

\* C1 as stated: when a load fails, the cache is the list it held when
\* that load was called, and an error notification is shown.
C1_AsStated ==
    [][\A i \in 1..Len(tasks) :
         (LoadSettles(i) /\ Failed(i)) =>
            /\ Cache' = tasks[i].cacheAtCall
            /\ Notification'.type = "error"]_vars

\* C1 (amended): when a load fails, its continuation leaves the cache as it
\* was just before it ran (the list of the latest completed load, which is
\* not the list at call time when another load completed in between), and
\* it shows an error notification carrying the failure's message.
C1_FailedLoadKeepsCache ==
    [][\A i \in 1..Len(tasks) :
         (LoadSettles(i) /\ Failed(i)) =>
            /\ Cache' = Cache
            /\ Notification' =
                 [message |-> LoadErrorText \o ErrorMessage(tasks[i].http),
                  type |-> "error"]]_vars

\* A load has failed while the cache held a list from an earlier load.
C1_Witness ==
    /\ Notification = [message |-> LoadErrorText \o "db down", type |-> "error"]
    /\ Cache # <<>>
    /\ tasks = <<>>

\* ------------------------------------------------------------------- C2

\* The submit handler's first part runs in this step.
SubmitStep == P_handleFormSubmit \/ M_handleFormSubmit

\* The form's fields that fail the required-field rules, with the element
\* that shows each field's error.
FailingFields ==
    IF module = "products"
    THEN (IF trim(dom["field-name"]) = "" THEN {"error-name"} ELSE {})
         \cup (IF dom["field-type"] = "" THEN {"error-type"} ELSE {})
         \cup (IF dom["field-price-standard"] = ""
                  \/ Number(dom["field-price-standard"]) < 0
               THEN {"error-price-standard"} ELSE {})
    ELSE (IF trim(dom["machine-field-name"]) = "" THEN {"machine-error-name"} ELSE {})
         \cup (IF trim(dom["machine-field-code"]) = "" THEN {"machine-error-code"}
               ELSE {})

\* C2: a submit with a failing field (empty name; Machines: empty code;
\* Products: empty type, missing or negative standard price) starts no
\* request, leaves the cache and the edited entity as they were, and shows an
\* error text on each failing field.
C2_InvalidSubmitStaysLocal ==
    [][(SubmitStep /\ FailingFields # {}) =>
          /\ tasks' = tasks
          /\ backend' = backend
          /\ Cache' = Cache
          /\ EditingEntity' = EditingEntity
          /\ \A errorId \in FailingFields : dom'[errorId] # ""]_vars

\* A submit was refused with every required field failing, and no request
\* is in flight.
C2_Witness ==
    /\ tasks = <<>>
    /\ \/ /\ module = "products"
          /\ dom["error-name"] # ""
          /\ dom["error-price-standard"] # ""
       \/ /\ module = "machines"
          /\ dom["machine-error-name"] = "El nombre de la maquina es obligatorio."
          /\ dom["machine-error-code"] = "El codigo de la maquina es obligatorio."

\* ------------------------------------------------------------------- C3

\* This step is the continuation of the create, update or toggle request
\* that task i awaited.
MutationSettles(i) ==
    \/ P_handleFormSubmit_mutated(i)
    \/ P_handleToggleStatus_mutated(i)
    \/ M_handleFormSubmit_mutated(i)
    \/ M_handleToggleStatus_mutated(i)

\* C3: when a create, update or toggle request has succeeded, the same
\* handler invocation goes on to a getAll request, and the step that takes
\* the mutation's response (successful or not) leaves the cache as it was.
C3_MutationThenReload ==
    [][\A i \in 1..Len(tasks) :
         MutationSettles(i) =>
            /\ Cache' = Cache
            /\ ~Failed(i) =>
                 /\ Len(tasks') = Len(tasks)
                 /\ tasks'[i].h = tasks[i].h
                 /\ tasks'[i].pc = "reload"
                 /\ tasks'[i].req = [method |-> "GET", endpoint |-> Base, body |-> Null]
                 /\ tasks'[i].http = Pending]_vars

\* A submit and a toggle have both succeeded and each awaits its reload.
C3_Witness ==
    \E i, j \in 1..Len(tasks) :
        /\ tasks[i].h = "handleFormSubmit" /\ tasks[i].pc = "reload"
        /\ tasks[j].h = "handleToggleStatus" /\ tasks[j].pc = "reload"

\* ------------------------------------------------------------------- C4

EditStep(id) == P_handleEdit(id) \/ M_handleEdit(id)
CancelStep == P_cancel \/ M_cancel
SubmitSucceeds(i) ==
    (P_handleFormSubmit_mutated(i) \/ M_handleFormSubmit_mutated(i)) /\ ~Failed(i)
ToggleStep ==
    \/ P_handleToggleStatus
    \/ M_handleToggleStatus
    \/ \E i \in 1..Len(tasks) :
         \/ P_handleToggleStatus_mutated(i) \/ P_handleToggleStatus_reloaded(i)
         \/ M_handleToggleStatus_mutated(i) \/ M_handleToggleStatus_reloaded(i)
FilterStep == P_handleSearch \/ M_applyFiltersEvent

\* The cache holds an entity whose id, as a string, is id.
InCache(id) == \E k \in 1..Len(Cache) : String(Cache[k].id) = id

\* The form is in CREATE mode.
CreateMode == EditingEntity = Null

\* C4: the form goes from CREATE to EDIT only by an edit of an id the cache
\* holds (and such an edit does put it in EDIT), from EDIT to CREATE only by
\* cancel or a successful create/update; after either of those the edited
\* entity is none; a toggle or a search/filter step keeps the mode.
C4_ModeTransitions ==
    [][/\ (CreateMode /\ ~CreateMode') =>
             \E id \in RowIds : EditStep(id) /\ InCache(id)
       /\ \A id \in RowIds : (EditStep(id) /\ InCache(id)) => ~CreateMode'
       /\ (~CreateMode /\ CreateMode') =>
             (CancelStep \/ \E i \in 1..Len(tasks) : SubmitSucceeds(i))
       /\ (CancelStep \/ \E i \in 1..Len(tasks) : SubmitSucceeds(i)) => CreateMode'
       /\ (ToggleStep \/ FilterStep) => (CreateMode' <=> CreateMode)]_vars

\* An update succeeded, which took the form from EDIT back to CREATE.
C4_Witness ==
    /\ CreateMode
    /\ Notification.message \in {"Producto actualizado correctamente.",
                                 "Maquina actualizada correctamente."}

\* ------------------------------------------------------------------- C5

MountStep == P_mountProducts \/ M_mountMachines

\* C5 as stated: once the mount entry point has run, the edited entity is
\* none.
C5_MountClearsEditing == [][MountStep => EditingEntity' = Null]_vars

\* ------------------------------------------------------------------- C6

\* The form passes validateForm.
FormValid ==
    IF module = "products" THEN P_validateForm(dom).valid
    ELSE M_validateForm(dom).valid

\* C6: a valid submit starts exactly one request, no other task changing:
\* in EDIT mode a PUT addressed to the edited entity's id, in CREATE mode a
\* POST to the collection whose payload carries no id.
C6_ValidSubmitOneMutation ==
    [][(SubmitStep /\ FormValid) =>
          /\ Len(tasks') = Len(tasks) + 1
          /\ SubSeq(tasks', 1, Len(tasks)) = tasks
          /\ LET req == tasks'[Len(tasks')].req
             IN  IF EditingEntity # Null
                 THEN /\ req.method = "PUT"
                      /\ req.endpoint = Base \o "/" \o String(EditingEntity.id)
                 ELSE /\ req.method = "POST"
                      /\ req.endpoint = Base
                      /\ "id" \notin DOMAIN req.body]_vars

\* A submit in EDIT mode has its update, addressed to the edited entity, in
\* flight.
C6_Witness ==
    /\ EditingEntity # Null
    /\ \E i \in 1..Len(tasks) :
         /\ tasks[i].h = "handleFormSubmit"
         /\ tasks[i].pc = "mutate"
         /\ tasks[i].req.method = "PUT"
         /\ tasks[i].req.endpoint = Base \o "/" \o String(EditingEntity.id)

\* ------------------------------------------------------------------- C7

\* This step is the continuation of the create or update that task i
\* awaited, and that request failed.
SaveFails(i) ==
    (P_handleFormSubmit_mutated(i) \/ M_handleFormSubmit_mutated(i)) /\ Failed(i)

\* The message of a failed response: the body's message field when the body
\* has one, else "Error {status}: {statusText}".
FailureMessage(http) ==
    IF http.body.parses /\ "message" \in DOMAIN http.body.data
    THEN http.body.data.message
    ELSE "Error " \o ToString(http.status) \o ": " \o http.statusText

\* The form: its fields, title and the blocks that show in EDIT mode only.
FormState ==
    LET ids == IF module = "products"
               THEN {"field-id", "field-name", "field-type", "field-price-standard",
                     "field-price-investor", "field-active", "form-title",
                     "form-cancel-btn"}
               ELSE {"machine-field-id", "machine-field-name", "machine-field-code",
                     "machine-field-notes", "machine-field-active",
                     "machine-status-group", "machine-form-title",
                     "machine-cancel-btn"}
    IN  [x \in ids |-> dom[x]]

\* C7 as stated: when the create or update fails with message m, the text
\* shown is "Error al guardar: " and m, no reload follows, the cache is as
\* it was, and the form is in the mode it was in before the submit (EDIT
\* for an update, CREATE for a create).
C7_AsStated ==
    [][\A i \in 1..Len(tasks) :
         SaveFails(i) =>
            /\ Notification'.message = "Error al guardar: " \o FailureMessage(tasks[i].http)
            /\ tasks' = RemoveAt(tasks, i)
            /\ Cache' = Cache
            /\ CreateMode' <=> tasks[i].req.method = "POST"]_vars

\* C7 (amended): when the create or update fails with message m, the text
\* shown is "Error al guardar: " and m ("Error al guardar: db down" for a
\* 500 whose body is {"message":"db down"}), no reload follows, and the
\* cache, the edited entity and the form are as they were when the response
\* arrived: the failure resets nothing (what the user did to the form while
\* the request was in flight stays done).
C7_FailedSaveKeepsForm ==
    [][\A i \in 1..Len(tasks) :
         SaveFails(i) =>
            /\ Notification' =
                 [message |-> "Error al guardar: " \o FailureMessage(tasks[i].http),
                  type |-> "error"]
            /\ tasks[i].http \in ErrorResponses =>
                 Notification'.message = "Error al guardar: db down"
            /\ tasks' = RemoveAt(tasks, i)
            /\ backend' = backend
            /\ Cache' = Cache
            /\ EditingEntity' = EditingEntity
            /\ FormState' = FormState]_vars

\* An update failed with "db down" and the form is still in EDIT mode with
\* the edited entity's id in it.
C7_Witness ==
    /\ Notification = [message |-> "Error al guardar: db down", type |-> "error"]
    /\ EditingEntity # Null
    /\ FormState[IF module = "products" THEN "field-id" ELSE "machine-field-id"]
         = String(EditingEntity.id)

\* ------------------------------------------------------------------- C8

\* Names and codes to put to the duplicate checks, besides those of the
\* cache and of the form.
C8_Texts == {"", "C", "AB", " ab ", "m1", " M1 ", "M3"}

\* Some cache entry other than the edited machine (any entry in CREATE
\* mode) has this text as its trimmed, lower-cased name / code.
OtherHasName(text) ==
    \E k \in 1..Len(allMachines) :
        /\ editingMachine = Null
           \/ String(allMachines[k].id) # String(editingMachine.id)
        /\ toLowerCase(trim(allMachines[k].name)) = toLowerCase(trim(text))
OtherHasCode(text) ==
    \E k \in 1..Len(allMachines) :
        /\ editingMachine = Null
           \/ String(allMachines[k].id) # String(editingMachine.id)
        /\ toLowerCase(trim(allMachines[k].code)) = toLowerCase(trim(text))

\* The texts the checks are put to in this state.
C8_Asked ==
    C8_Texts \cup {dom["machine-field-name"], dom["machine-field-code"]}
             \cup {allMachines[k].name : k \in 1..Len(allMachines)}
             \cup {allMachines[k].code : k \in 1..Len(allMachines)}

\* The duplicate checks answer exactly when another entry has the text.
C8_Iff ==
    \A text \in C8_Asked :
        /\ M_isNameDuplicate(text, allMachines, editingMachine) <=> OtherHasName(text)
        /\ M_isCodeDuplicate(text, allMachines, editingMachine) <=> OtherHasCode(text)

\* The edited machine is in the cache as it was when the edit began.
EditedUnchanged ==
    /\ editingMachine # Null
    /\ \E k \in 1..Len(allMachines) : allMachines[k] = editingMachine

\* C8 as stated: a check reports a duplicate exactly when another entry has
\* the text, and the edited machine's own unchanged name and code are never
\* reported as duplicates.
C8_AsStated ==
    module = "machines" =>
        /\ C8_Iff
        /\ EditedUnchanged =>
             /\ ~M_isNameDuplicate(editingMachine.name, allMachines, editingMachine)
             /\ ~M_isCodeDuplicate(editingMachine.code, allMachines, editingMachine)

\* C8 (amended): a check reports a duplicate exactly when a cache entry
\* whose id, as a string, differs from the edited machine's (any entry in
\* CREATE mode) has the same trimmed, lower-cased name (resp. code); the
\* edited machine's own entry never counts, so its unchanged name and code
\* are reported only when another entry of the cache carries them too.
C8_DuplicateIffOtherEntry ==
    module = "machines" =>
        /\ C8_Iff
        /\ EditedUnchanged =>
             /\ M_isNameDuplicate(editingMachine.name, allMachines, editingMachine)
                  <=> OtherHasName(editingMachine.name)
             /\ M_isCodeDuplicate(editingMachine.code, allMachines, editingMachine)
                  <=> OtherHasCode(editingMachine.code)
             /\ ~M_isNameDuplicate(editingMachine.name, <<editingMachine>>, editingMachine)
             /\ ~M_isCodeDuplicate(editingMachine.code, <<editingMachine>>, editingMachine)

\* A machine is being edited in a cache of two: its own name and code are
\* accepted and the other machine's are reported.
C8_Witness ==
    /\ module = "machines"
    /\ EditedUnchanged
    /\ Len(allMachines) = 2
    /\ ~M_isNameDuplicate(editingMachine.name, allMachines, editingMachine)
    /\ ~M_isCodeDuplicate(editingMachine.code, allMachines, editingMachine)
    /\ \E k \in 1..Len(allMachines) :
         /\ M_isNameDuplicate(allMachines[k].name, allMachines, editingMachine)
         /\ M_isCodeDuplicate(allMachines[k].code, allMachines, editingMachine)

\* ------------------------------------------------------------------- C9

\* A product of the cache other than the edited one has the form's name,
\* trimmed and lower-cased.
P_NameTaken ==
    \E k \in 1..Len(allProducts) :
        /\ editingProduct = Null
           \/ String(allProducts[k].id) # String(editingProduct.id)
        /\ toLowerCase(trim(allProducts[k].name))
             = toLowerCase(trim(dom["field-name"]))

\* C9: a product submit whose name another product of the cache has starts
\* no request.
C9_DuplicateNameRejected ==
    [][(P_handleFormSubmit /\ P_NameTaken) => tasks' = tasks]_vars

\* ------------------------------------------------------------------ C10

\* This step is the continuation of a successful toggle of the machine that
\* is open in the edit form.
ToggleOfEditedSucceeds(i) ==
    /\ M_handleToggleStatus_mutated(i)
    /\ ~Failed(i)
    /\ editingMachine # Null
    /\ String(editingMachine.id) = String(tasks[i].id)

\* The edit form apart from its status field.
M_OtherFields ==
    [x \in {"machine-field-id", "machine-field-name", "machine-field-code",
            "machine-field-notes", "machine-status-group", "machine-form-title",
            "machine-cancel-btn"} |-> dom[x]]

\* C10: when a toggle of the machine in the edit form succeeds, the step
\* that issues the reload has set the form's status field to the new status
\* ("true" when the machine was inactive, "false" when it was active) and
\* editingMachine.isActive to the same; editingMachine is otherwise as it
\* was, the form stays in EDIT mode and its other fields are untouched.
C10_ToggleSyncsEditForm ==
    [][\A i \in 1..Len(tasks) :
         ToggleOfEditedSucceeds(i) =>
            /\ dom'["machine-field-active"] =
                 (IF tasks[i].currentlyActive THEN "false" ELSE "true")
            /\ editingMachine' # Null
            /\ editingMachine'.isActive = ~tasks[i].currentlyActive
            /\ \A f \in DOMAIN editingMachine \ {"isActive"} :
                 editingMachine'[f] = editingMachine[f]
            /\ M_OtherFields' = M_OtherFields
            /\ tasks'[i].pc = "reload"
            /\ tasks'[i].http = Pending]_vars

\* The edited machine was deactivated: the reload is in flight, and the
\* form's status field and editingMachine both say inactive.
C10_Witness ==
    /\ module = "machines"
    /\ "isActive" \in DOMAIN editingMachine
    /\ editingMachine.isActive = FALSE
    /\ dom["machine-field-active"] = "false"
    /\ \E i \in 1..Len(tasks) :
         /\ tasks[i].h = "handleToggleStatus"
         /\ tasks[i].pc = "reload"
         /\ tasks[i].currentlyActive
         /\ String(tasks[i].id) = String(editingMachine.id)

\* ------------------------------------------------------------------ C11

\* This step is the continuation of a successful toggle of the product that
\* is open in the edit form.
P_ToggleOfEditedSucceeds(i) ==
    /\ P_handleToggleStatus_mutated(i)
    /\ ~Failed(i)
    /\ editingProduct # Null
    /\ String(editingProduct.id) = String(tasks[i].id)

\* C11: when a toggle of the product in the edit form succeeds, the form's
\* status field shows the product's new status ("false" when it was active,
\* "true" when it was inactive), so that a save of the form sends it.
C11_ToggleSyncsProductForm ==
    [][\A i \in 1..Len(tasks) :
         P_ToggleOfEditedSucceeds(i) =>
            dom'["field-active"] =
              (IF tasks[i].currentlyActive THEN "false" ELSE "true")]_vars

\* ------------------------------------------------------------------ C12

\* This step is the continuation of a toggle request that failed, and the
\* step in which a toggle handler starts (confirm dialog and request).
ToggleFails(i) ==
    (P_handleToggleStatus_mutated(i) \/ M_handleToggleStatus_mutated(i)) /\ Failed(i)
ToggleStarts == P_handleToggleStatus \/ M_handleToggleStatus

\* The table as the user sees it: spinner, empty panel, wrapper, rows, badge.
TableState ==
    LET ids == IF module = "products"
               THEN {"table-loading", "table-empty", "table-wrapper",
                     "products-tbody", "products-count-badge"}
               ELSE {"machines-table-loading", "machines-table-empty",
                     "machines-table-wrapper", "machines-tbody",
                     "machines-count-badge"}
    IN  [x \in ids |-> dom[x]]

\* C12: when a toggle request fails, the cache, the table, the edited
\* entity and the form (its status field included) are as they were, the
\* notification is "Error al cambiar estado: " and the failure's message as
\* an error, and no reload is started; and the step that starts a toggle
\* changes neither the cache nor the table nor the form (nothing is applied
\* before the request has succeeded).
C12_FailedToggleChangesNothing ==
    [][/\ \A i \in 1..Len(tasks) :
            ToggleFails(i) =>
               /\ Cache' = Cache
               /\ backend' = backend
               /\ TableState' = TableState
               /\ EditingEntity' = EditingEntity
               /\ FormState' = FormState
               /\ Notification' =
                    [message |-> "Error al cambiar estado: "
                                   \o FailureMessage(tasks[i].http),
                     type |-> "error"]
               /\ tasks' = RemoveAt(tasks, i)
       /\ ToggleStarts =>
            /\ Cache' = Cache
            /\ TableState' = TableState
            /\ EditingEntity' = EditingEntity
            /\ FormState' = FormState]_vars

\* The toggle of the entity open in the edit form failed: the error shows,
\* the row and the form still carry the status from before.
C12_Witness ==
    /\ Notification = [message |-> "Error al cambiar estado: db down", type |-> "error"]
    /\ EditingEntity # Null
    /\ Cache # <<>>
    /\ tasks = <<>>
    /\ FormState[IF module = "products" THEN "field-active"
                 ELSE "machine-field-active"] = "true"
    /\ TableState[IF module = "products" THEN "products-tbody"
                  ELSE "machines-tbody"][1].active

\* ------------------------------------------------------- C13, C14, C15

\* applyFilters runs in this step: from a filter control, or from a load
\* that succeeded.
CoordinatorRuns ==
    \/ M_applyFiltersEvent
    \/ \E i \in 1..Len(tasks) : M_loadMachines(i) /\ ~Failed(i)

\* The machine rows the user sees.
M_VisibleRows ==
    IF dom["machines-table-wrapper"] = "none" THEN <<>> ELSE dom["machines-tbody"]

\* The text and the status conditions of the filter controls, for machine m.
IsFalse(m) == "isActive" \in DOMAIN m /\ m.isActive = FALSE
TextOk(m) ==
    LET query == toLowerCase(trim(dom["machines-search"]))
    IN  \/ query = ""
        \/ includes(toLowerCase(m.name), query)
        \/ includes(toLowerCase(m.code), query)
StatusOk(m) ==
    CASE dom["machines-filter-status"] = "active" -> ~IsFalse(m)
      [] dom["machines-filter-status"] = "inactive" -> IsFalse(m)
      [] OTHER -> TRUE
BothOk(m) == TextOk(m) /\ StatusOk(m)

\* The ids of the visible rows, and of the cache entries in a set of indices.
M_VisibleIds == {M_VisibleRows[k].id : k \in 1..Len(M_VisibleRows)}
IdsOf(indices) == {String(allMachines[k].id) : k \in indices}

\* What the status filter shows, the search box being empty.
C13_StatusFilter ==
    /\ (dom["machines-filter-status"] = "active" /\ trim(dom["machines-search"]) = "") =>
          M_VisibleIds = IdsOf({k \in 1..Len(allMachines) : ~IsFalse(allMachines[k])})
    /\ (dom["machines-filter-status"] = "inactive" /\ trim(dom["machines-search"]) = "") =>
          M_VisibleIds = IdsOf({k \in 1..Len(allMachines) : IsFalse(allMachines[k])})
    /\ dom["machines-filter-status"] = "inactive" =>
          \A k \in 1..Len(allMachines) :
              "isActive" \notin DOMAIN allMachines[k] =>
                  String(allMachines[k].id) \notin M_VisibleIds

\* C13: once applyFilters has run, under "active" every entry whose
\* isActive is absent or not false is shown and under "inactive" exactly the
\* entries whose isActive is false are (the search box being empty); an
\* entry without the flag is never shown under "inactive".
C13_AbsentFlagIsActive == [][CoordinatorRuns => C13_StatusFilter']_vars

\* Under "inactive", a cache with an entry without the flag and an entry
\* with isActive false shows the second one only.
C13_Witness ==
    /\ module = "machines"
    /\ tasks = <<>>
    /\ dom["machines-filter-status"] = "inactive"
    /\ Len(allMachines) = 2
    /\ "isActive" \notin DOMAIN allMachines[1]
    /\ IsFalse(allMachines[2])
    /\ M_VisibleIds = {"2"}

\* The row of machine m.
RowOf(m) ==
    [id |-> String(m.id), active |-> ~IsFalse(m), name |-> m.name, code |-> m.code]

\* The rows of the entries that satisfy both conditions, in cache order.
RECURSIVE RowsOfKept(_)
RowsOfKept(list) ==
    IF list = <<>> THEN <<>>
    ELSE IF BothOk(Head(list)) THEN <<RowOf(Head(list))>> \o RowsOfKept(Tail(list))
    ELSE RowsOfKept(Tail(list))

C14_Expected == RowsOfKept(allMachines)

\* C14: once applyFilters has run, the visible rows are the rows of exactly
\* the cache entries that satisfy the text condition and the status
\* condition, in cache order.
C14_RowsAreFilteredCache == [][CoordinatorRuns => (M_VisibleRows = C14_Expected)']_vars

\* A search text with the "active" filter keeps one of two entries: the
\* one found by its code, the other being inactive.
C14_Witness ==
    /\ module = "machines"
    /\ tasks = <<>>
    /\ dom["machines-search"] = " B"
    /\ dom["machines-filter-status"] = "active"
    /\ Len(allMachines) = 2
    /\ M_VisibleIds = {"2"}
    /\ allMachines[2].code = "MB"
    /\ IsFalse(allMachines[1])
    /\ TextOk(allMachines[1])

\* The badge for a cache of `total` of which `shown` are displayed.
C15_Expected(shown, total) ==
    LET noun == IF total = 1 THEN " maquina" ELSE " maquinas"
    IN  IF shown < total
        THEN ToString(shown) \o " de " \o ToString(total) \o noun
        ELSE ToString(total) \o noun

\* C15: once applyFilters has run, the badge reads "{filtered} de {total}
\* maquina(s)" exactly when fewer rows are shown than the cache holds, and
\* "{total} maquina(s)" otherwise; the noun is plural iff total is not 1.
C15_BadgeText ==
    [][CoordinatorRuns =>
         (dom["machines-count-badge"]
            = C15_Expected(Len(M_VisibleRows), Len(allMachines)))']_vars

\* A cache of two with one inactive, under "inactive": "1 de 2 maquinas".
C15_Witness ==
    /\ module = "machines"
    /\ tasks = <<>>
    /\ dom["machines-filter-status"] = "inactive"
    /\ Len(allMachines) = 2
    /\ Len(M_VisibleRows) = 1
    /\ dom["machines-count-badge"] = "1 de 2 maquinas"

\* ------------------------------------------------------------ C16, C17

\* The product rows the user sees, and their ids in order.
P_VisibleRows ==
    IF dom["table-wrapper"] = "none" THEN <<>> ELSE dom["products-tbody"]
P_VisibleIds == [k \in 1..Len(P_VisibleRows) |-> P_VisibleRows[k].id]

\* C16: when a search leaves fewer rows than the cache holds, the badge
\* reads "{filtered} de {total} productos".
C16_SearchBadge ==
    [][(P_handleSearch /\ Len(P_VisibleRows') < Len(allProducts)) =>
          dom'["products-count-badge"] =
             ToString(Len(P_VisibleRows')) \o " de " \o ToString(Len(allProducts))
                \o (IF Len(allProducts) = 1 THEN " producto" ELSE " productos")]_vars

\* The product's name contains the text of the search box.
P_Matches(product) ==
    LET query == toLowerCase(trim(dom["table-search"]))
    IN  query = "" \/ includes(toLowerCase(product.name), query)

\* The ids of the cache entries the search box selects, in cache order.
P_MatchingIds ==
    LET kept == SelectSeq(allProducts, P_Matches)
    IN  [k \in 1..Len(kept) |-> String(kept[k].id)]

\* This step is the continuation of the reload after a mutation, and the
\* reload succeeded.
P_ReloadSucceeds(i) ==
    (P_handleFormSubmit_reloaded(i) \/ P_handleToggleStatus_reloaded(i)) /\ ~Failed(i)

\* C17: when the reload after a create, update or toggle has succeeded, the
\* rows shown are exactly the cache entries whose name contains the text of
\* the search box.
C17_ReloadKeepsSearch ==
    [][\A i \in 1..Len(tasks) :
         P_ReloadSucceeds(i) => (P_VisibleIds = P_MatchingIds)']_vars

\* ------------------------------------------------------------------ C18

\* This step is the continuation of a load that failed.
LoadFails(i) == LoadSettles(i) /\ Failed(i)

\* C18: a failed load leaves the visible table as it was; in the case the
\* claim spells out, when the empty-state panel was showing as that load was
\* called, no entity row is visible after the failure.
C18_EmptyPanelStaysRowless ==
    [][\A i \in 1..Len(tasks) :
         (LoadFails(i) /\ tasks[i].shownAtCall.empty) => ShownTable'.rows = <<>>]_vars

\* ------------------------------------------------------------------ C19

\* The message the body of a response carries: its JSON `message` when the
\* body is a JSON object with a non-empty one, "" otherwise.
BodyMessage(r) ==
    IF r.body.parses /\ "message" \in DOMAIN r.body.data
    THEN r.body.data.message ELSE ""

\* C19: request() throws on a non-2xx response, with the body's non-empty
\* `message` or else "Error {status}: {statusText}" (also when the body is not
\* JSON); on a 2xx response it gives null for 204 and the parsed JSON body
\* otherwise.
C19_RequestOutcome ==
    \A i \in 1..Len(tasks) :
      (tasks[i].h = "request" /\ tasks[i].pc = "done") =>
        LET r == tasks[i].http
            o == tasks[i].outcome
            ok == r.status >= 200 /\ r.status <= 299
        IN  /\ (~ok /\ BodyMessage(r) # "") =>
                 (o.threw /\ o.message = BodyMessage(r))
            /\ (~ok /\ BodyMessage(r) = "") =>
                 (o.threw /\ o.message = "Error " \o ToString(r.status) \o ": "
                                                   \o r.statusText)
            /\ (ok /\ r.status = 204) => (~o.threw /\ o.value = Null)
            /\ (ok /\ r.status # 204 /\ r.body.parses) =>
                 (~o.threw /\ o.value = r.body.data)

\* request() has settled a 204 response that carries a JSON body.
C19_Witness ==
    /\ Len(tasks) = 1
    /\ tasks[1].h = "request"
    /\ tasks[1].pc = "done"
    /\ tasks[1].http.status = 204
    /\ tasks[1].http.body.parses
    /\ tasks[1].http.body.data # Null
    /\ tasks[1].outcome = Returned(Null)

\* ------------------------------------------------------------------ C20

\* The submit button of the markup on the page.
SubmitButton ==
    IF module = "products" THEN dom["form-submit-btn"] ELSE dom["machine-submit-btn"]

\* A submit of the form on the page has passed validation and has not yet
\* run to its end (its create/update, or the reload after it, is awaited).
SubmitInFlight ==
    \E i \in 1..Len(tasks) :
      tasks[i].h = "handleFormSubmit" /\ tasks[i].submitBtn = domGen

\* This step runs the submit of task i to its end: its create/update failed,
\* or the reload after it has settled either way.
SubmitEnds(i) ==
    /\ tasks[i].h = "handleFormSubmit"
    /\ tasks[i].submitBtn = domGen
    /\ \/ P_handleFormSubmit_mutated(i) \/ P_handleFormSubmit_reloaded(i)
       \/ M_handleFormSubmit_mutated(i) \/ M_handleFormSubmit_reloaded(i)
    /\ Len(tasks') < Len(tasks)

\* C20: the submit button is disabled exactly while a validated submit of the
\* form is in flight (create/update, then the reload), and every step that
\* ends the submit (failed mutation, reload succeeded, reload failed) leaves
\* it enabled.
C20_SubmitButtonLoading ==
    [][/\ (SubmitButton.disabled <=> SubmitInFlight)'
       /\ \A i \in 1..Len(tasks) : SubmitEnds(i) => ~SubmitButton'.disabled]_vars

\* A save went through, the reload after it failed, and the button is enabled
\* again: the cache is loaded but the backend holds one entity more.
C20_Witness ==
    /\ tasks = <<>>
    /\ events > 0
    /\ Len(Cache) >= 1
    /\ Len(backend) > Len(Cache)
    /\ Notification.message = LoadErrorText \o "db down"
    /\ ~SubmitButton.disabled

\* ------------------------------------------------------------------ C21

\* The first cache entry whose id, as a string, is id.
RECURSIVE FirstWithId(_, _)
FirstWithId(list, id) ==
    IF list = <<>> THEN Null
    ELSE IF String(Head(list).id) = id THEN Head(list)
    ELSE FirstWithId(Tail(list), id)

\* C21: an edit finds its target by comparing ids as strings, the cache
\* holding numbers and the row a string; when no cache entry has the id the
\* edit changes nothing: edited entity, form fields and the rest of the page,
\* cache, notifications and requests are as before.
C21_EditLooksUpByStringId ==
    [][\A id \in RowIds :
         EditStep(id) =>
           IF InCache(id)
           THEN /\ EditingEntity' = FirstWithId(Cache, id)
                /\ Cache' = Cache
           ELSE /\ EditingEntity' = EditingEntity
                /\ dom' = dom
                /\ Cache' = Cache
                /\ tasks' = tasks]_vars

\* The entry with the number 2 as id is being edited, found from the row
\* id "2", and the form's id field shows "2".
C21_Witness ==
    /\ EditingEntity # Null
    /\ EditingEntity.id = 2
    /\ String(EditingEntity.id) = "2"
    /\ IF module = "products" THEN dom["field-id"] = "2"
       ELSE dom["machine-field-id"] = "2"

\* ------------------------------------------------------------------ C22

\* C22: a status toggle whose target id the cache does not hold sends no
\* request: every request a toggle step adds is for an id the cache holds.
C22_ToggleOfAbsentIsNoOp ==
    [][ToggleStarts =>
         \A k \in 1..Len(tasks') : k > Len(tasks) => InCache(tasks'[k].id)]_vars

\* ------------------------------------------------------------------ C23

\* C23: the cache has one writer.  A step that changes the cache is the
\* continuation of a load that succeeded; such a continuation makes the
\* cache the list that load delivered; the continuation of a failed load,
\* and with it every other step (edit, cancel, search/filter, validation,
\* the create/update/toggle handlers before their reload has completed),
\* leaves the cache as it is.
C23_CacheSingleWriter ==
    [][/\ Cache' # Cache =>
            \E i \in 1..Len(tasks) : LoadSettles(i) /\ ~Failed(i)
       /\ \A i \in 1..Len(tasks) :
            (LoadSettles(i) /\ ~Failed(i)) => Cache' = tasks[i].http.body.data
       /\ \A i \in 1..Len(tasks) :
            (LoadSettles(i) /\ Failed(i)) => Cache' = Cache]_vars

\* A second load has replaced the list of the first: the cache holds the
\* two entities the backend holds, one of them created from the form.
C23_Witness ==
    /\ tasks = <<>>
    /\ Len(Cache) = 2
    /\ Cache = backend
    /\ events >= 2

\* ------------------------------------------------------------------ C24

\* C24: Machines: the payload of a create request never holds isActive, and
\* the payload of every update request holds isActive, equal to the value
\* of the form's status selector.
C24_PayloadStatus ==
    [][M_handleFormSubmit =>
         \A k \in 1..Len(tasks') :
           k > Len(tasks) =>
             LET req == tasks'[k].req
             IN  /\ req.method = "POST" => "isActive" \notin DOMAIN req.body
                 /\ req.method = "PUT" =>
                      /\ "isActive" \in DOMAIN req.body
                      /\ req.body.isActive = (dom["machine-field-active"] = "true")]_vars

\* ------------------------------------------------------------------ C25

\* Nothing is in flight.
Quiescent == tasks = <<>>

\* C25 as stated: once every request has completed, none having failed, the
\* cache is the list the backend holds.
C25_AsStated == Quiescent => Cache = backend

\* C25: the step that completes the last request in flight, none having
\* failed, is the continuation of a load, and it leaves the cache equal to
\* the list that load's response carries: the list the backend held when it
\* answered that getAll, whichever list it holds by now.
C25_LastResponseWins ==
    [][(Len(tasks) = 1 /\ Quiescent') =>
          /\ LoadSettles(1)
          /\ Cache' = tasks[1].http.body.data]_vars

\* Two mutations, each followed by its reload, have succeeded and completed,
\* and the cache is not the backend's list: the getAll answered between the
\* two mutations was delivered after the one answered last.
C25_Witness ==
    /\ Quiescent
    /\ Len(Cache) = 2
    /\ Len(backend) = 2
    /\ Cache # backend

\* ------------------------------------------------------------------ C26

\* The submit button's label for a new entity.
CreateLabel == IF module = "products" THEN "Crear Producto" ELSE "Guardar Maquina"

\* The label says what the form's mode is.
LabelMatchesMode ==
    /\ SubmitButton.innerHTML = CreateLabel <=> EditingEntity = Null
    /\ SubmitButton.innerHTML = "Guardar Cambios" <=> EditingEntity # Null

\* C26: with no submit in flight the submit button's label matches the
\* form mode; in particular it does once a submit, successful or failed, in
\* either mode, has run to its end.
C26_LabelMatchesMode ==
    [][\A i \in 1..Len(tasks) :
         (SubmitEnds(i) /\ ~SubmitInFlight') => LabelMatchesMode']_vars
====
